---------------------------- MODULE Spec2Model ----------------------------
(***************************************************************************)
(* Ingest-and-merge engine of the rewarded-decision tracker.               *)
(*                                                                         *)
(* src/src/ingest/partition.py            RewardedDecisionPartition,       *)
(*                                        repair_overlapping_keys, split,  *)
(*                                        parquet_s3_key(_prefix)          *)
(* src/src/ingest_firehose/worker.py      worker, process_decisions        *)
(* src/src/ingest_firehose/firehose_record.py  to_rewarded_decision_dict   *)
(*                                                                         *)
(* A decision_id / message_id (a KSUID) is a natural number d whose        *)
(* leading part is its timestamp in seconds: Timestamp(d) = d \div         *)
(* IdsPerSec.  String order of KSUIDs is the order of the numbers.         *)
(* A nullable cell is a sequence of length 0 (null) or 1 (the value).      *)
(* A JSON map is the sequence of its <<key, value>> pairs in key order     *)
(* (the canonical text json_dumps writes).                                 *)
(***************************************************************************)
EXTENDS Integers, Sequences, FiniteSets, TLC

(***************************************************************************)
(* Bounds of the model.                                                    *)
(***************************************************************************)
IdsPerSec == 2          \* distinct KSUIDs that share one second
MaxTable == 3           \* rows of a table drawn as input of merge
NumWorkers == 2         \* ingest workers on the one bucket
MaxSecond == 3          \* seconds of the keys handed to get_all_overlaps
MaxKeys == 3            \* keys handed to get_all_overlaps

(***************************************************************************)
(* Program configuration.                                                  *)
(***************************************************************************)
PARQUET_FILE_MAX_DECISION_RECORDS == 2

ModelName == "m"

Null == <<>>
Some(v) == <<v>>
IsNull(c) == c = Null

(***************************************************************************)
(* KSUIDs.  BadId stands for a stored decision_id that is no KSUID (it     *)
(* sorts before every KSUID and has no timestamp).                         *)
(***************************************************************************)
BadId == 0
\* the r-th KSUID of second ts
Id(ts, r) == ts * IdsPerSec + r

IsValidMessageId(d) == d >= IdsPerSec

Timestamp(d) == d \div IdsPerSec

(***************************************************************************)
(* Rewarded decision records as to_rewarded_decision_dict projects them.   *)
(***************************************************************************)
DecisionRDR(d, v, g) ==
    [decision_id |-> d, variant |-> Some(v), givens |-> g,
     rewards |-> Null, reward |-> Null]

RewardRDR(d, k, r) ==
    [decision_id |-> d, variant |-> Null, givens |-> Null,
     rewards |-> Some(<< <<k, r>> >>), reward |-> Null]

(***************************************************************************)
(* Sequences.                                                              *)
(***************************************************************************)
Range(s) == {s[i] : i \in DOMAIN s}

Min(S) == CHOOSE x \in S : \A y \in S : x <= y
Max(S) == CHOOSE x \in S : \A y \in S : y <= x

RECURSIVE SortedSeq(_)
SortedSeq(S) ==
    IF S = {} THEN <<>> ELSE <<Min(S)>> \o SortedSeq(S \ {Min(S)})

RECURSIVE Flatten(_)
Flatten(ss) == IF ss = <<>> THEN <<>> ELSE Head(ss) \o Flatten(Tail(ss))

Ids(df) == {df[i].decision_id : i \in DOMAIN df}

(***************************************************************************)
(* sort(): sort_values by decision_id with the default, unstable sort:     *)
(* rows of one decision_id come out in any order.                          *)
(***************************************************************************)
PermSeqs(s) ==
    {[i \in 1 .. Len(s) |-> s[p[i]]] : p \in Permutations(1 .. Len(s))}

RECURSIVE TieOrders(_, _)
TieOrders(df, ids) ==
    IF ids = <<>> THEN {<<>>}
    ELSE {a \o b : a \in PermSeqs(SelectSeq(df, LAMBDA r : r.decision_id = Head(ids))),
                   b \in TieOrders(df, Tail(ids))}

SortOutcomes(df) == TieOrders(df, SortedSeq(Ids(df)))

(***************************************************************************)
(* merge(): groupby(decision_id).agg(...)                                  *)
(***************************************************************************)
MapKeys(m) == {m[i][1] : i \in DOMAIN m}
MapGet(m, k) == m[CHOOSE i \in DOMAIN m : m[i][1] = k][2]

\* the rows of one decision_id, in table order
Group(df, d) == SelectSeq(df, LAMBDA r : r.decision_id = d)

DropNa(cells) == SelectSeq(cells, LAMBDA c : ~IsNull(c))

RECURSIVE SumValues(_)
SumValues(m) == IF m = <<>> THEN 0 ELSE Head(m)[2] + SumValues(Tail(m))

\* the maps of the non-null cells of a rewards column
Dicts(rewards_series) ==
    [i \in DOMAIN DropNa(rewards_series) |-> DropNa(rewards_series)[i][1]]

\* (a merge that adds up the values a message_id has in the maps)
merge_rewards_adding(rewards_series) ==
    LET dicts == Dicts(rewards_series)
        keys == UNION {MapKeys(dicts[i]) : i \in DOMAIN dicts}
        ks == SortedSeq(keys)
        all(k) == SelectSeq(Flatten(dicts), LAMBDA kv : kv[1] = k)
    IN  [j \in DOMAIN ks |-> <<ks[j], SumValues(all(ks[j]))>>]

\* dict(ChainMap(*rewards_dicts)) written back by json_dumps: a key takes its
\* value from the first map that has it
merge_rewards(rewards_series) ==
    LET dicts == Dicts(rewards_series)
        keys == UNION {MapKeys(dicts[i]) : i \in DOMAIN dicts}
        first(k) == Min({i \in DOMAIN dicts : k \in MapKeys(dicts[i])})
        ks == SortedSeq(keys)
    IN  [j \in DOMAIN ks |-> <<ks[j], MapGet(dicts[first(ks[j])], ks[j])>>]

\* (a sum over every reward cell, repeated message_ids included)
sum_rewards_all(rewards_series) == SumValues(Flatten(Dicts(rewards_series)))

sum_rewards(rewards_series) == SumValues(merge_rewards(rewards_series))

\* (the first cell, null or not)
get_first_cell_raw(col_series) == col_series[1]

get_first_cell(col_series) ==
    IF \A i \in DOMAIN col_series : IsNull(col_series[i])
    THEN col_series[1]
    ELSE DropNa(col_series)[1]

Column(g, name) == [i \in DOMAIN g |-> g[i][name]]

AggRow(g) ==
    [decision_id |-> g[1].decision_id,
     variant |-> get_first_cell(Column(g, "variant")),
     givens |-> get_first_cell(Column(g, "givens")),
     rewards |-> Some(merge_rewards(Column(g, "rewards"))),
     reward |-> Some(sum_rewards(Column(g, "rewards")))]

\* the aggregation of a table already sorted by decision_id
MergeSorted(df) ==
    LET ids == SortedSeq(Ids(df))
    IN  [j \in DOMAIN ids |-> AggRow(Group(df, ids[j]))]

\* sort() followed by merge(), for every order the sort may leave ties in
MergeOutcomes(df) == {MergeSorted(s) : s \in SortOutcomes(df)}

(***************************************************************************)
(* split(): ceil(n / max_row_count) chunks of roughly equal size.          *)
(***************************************************************************)
CeilDiv(n, k) == (n + k - 1) \div k

MinOf(a, b) == IF a <= b THEN a ELSE b

\* (a split that keeps the first max_row_count rows only)
split_first_rows(df, max_row_count) ==
    << SubSeq(df, 1, MinOf(Len(df), max_row_count)) >>

split(df, max_row_count) ==
    LET n == Len(df)
        chunk_count == CeilDiv(n, max_row_count)
        k == n \div chunk_count
        m == n % chunk_count
    IN  [c \in 1 .. chunk_count |->
            SubSeq(df, (c - 1) * k + MinOf(c - 1, m) + 1,
                       c * k + MinOf(c, m))]


(***************************************************************************)
(* Partition keys.  A key                                                  *)
(*   rewarded_decisions/<model>/parquet/YYYY/MM/DD/<max>-<min>-<count>-<uuid>.parquet *)
(* is the record of its fields; KeyString gives the text of a key as the   *)
(* sequence of its tokens, so that string order is the lexicographic order *)
(* of the token sequences: a timestamp (fixed width, YYYY/MM/DD repeats    *)
(* its leading part), the dash, the decimal digits of the count, the uuid. *)
(***************************************************************************)
Dash == -1          \* "-" sorts before every digit

RECURSIVE Digits(_)
Digits(n) == IF n < 10 THEN <<n>> ELSE Digits(n \div 10) \o <<n % 10>>

LexLess(a, b) ==
    \E i \in 1 .. Len(b) :
        /\ \A j \in 1 .. i - 1 : j <= Len(a) /\ a[j] = b[j]
        /\ i > Len(a) \/ a[i] < b[i]

\* (a prefix that names the second after the decision_id's)
parquet_s3_key_prefix_after(max_decision_id) == <<Timestamp(max_decision_id) + 1>>

\* the text of parquet_s3_key_prefix(model_name, max_decision_id) after
\* rewarded_decisions/<model>/parquet/
parquet_s3_key_prefix(max_decision_id) == <<Timestamp(max_decision_id)>>

\* (a key that names the min timestamp first)
parquet_s3_key_min_first(model_name, min_decision_id, max_decision_id, count, uuid) ==
    [model |-> model_name, maxts |-> Timestamp(min_decision_id),
     mints |-> Timestamp(max_decision_id), count |-> count, uuid |-> uuid]

\* <prefix of max_decision_id>-<min timestamp>-<count>-<uuid4>.parquet
parquet_s3_key(model_name, min_decision_id, max_decision_id, count, uuid) ==
    [model |-> model_name, maxts |-> Timestamp(max_decision_id),
     mints |-> Timestamp(min_decision_id), count |-> count, uuid |-> uuid]

KeyString(k) ==
    <<k.maxts, Dash, k.mints, Dash>> \o Digits(k.count) \o <<Dash, k.uuid>>

KeyLess(k1, k2) == LexLess(KeyString(k1), KeyString(k2))

RECURSIVE SortKeys(_)
SortKeys(K) ==
    IF K = {} THEN <<>>
    ELSE LET k == CHOOSE x \in K : \A y \in K \ {x} : KeyLess(x, y)
         IN  <<k>> \o SortKeys(K \ {k})

Reverse(s) == [i \in 1 .. Len(s) |-> s[Len(s) + 1 - i]]

\* the object store: a set of objects [key, rows]
LiveKeys(st) == {o.key : o \in st}
RowsOf(st, k) == (CHOOSE o \in st : o.key = k).rows

\* list_objects_v2(Prefix = rewarded_decisions/<model>/, StartAfter = key):
\* the keys of the model that sort after the text, in ascending order
list_partitions_after(st, model_name, start_after) ==
    SortKeys({k \in LiveKeys(st) :
                 k.model = model_name /\ LexLess(start_after, KeyString(k))})

(***************************************************************************)
(* partitions_from_firehose_record_group: the incoming RDRs in prefix      *)
(* order, and the walk over the listed keys.                               *)
(***************************************************************************)
RECURSIVE SortByPrefix(_, _)
SortByPrefix(rdrs, tss) ==
    IF tss = <<>> THEN <<>>
    ELSE SelectSeq(rdrs, LAMBDA r : Timestamp(r.decision_id) = Head(tss))
         \o SortByPrefix(rdrs, Tail(tss))

get_sorted_s3_prefixes(rdrs) ==
    SortByPrefix(rdrs, SortedSeq({Timestamp(d) : d \in Ids(rdrs)}))

\* (a walk that gives every RDR left to the key at hand)
AssignedToAny(r, s3_key) == TRUE

\* append_s3_to_firehose_records = (s3_prefixes < s3_key)
AssignedTo(r, s3_key) ==
    LexLess(parquet_s3_key_prefix(r.decision_id), KeyString(s3_key))

\* (a walk that leaves the appended rows in rdrs_df)
RECURSIVE WalkKeysKeepingRows(_, _)
WalkKeysKeepingRows(s3_keys, rdrs_df) ==
    IF s3_keys = <<>>
    THEN IF rdrs_df = <<>> THEN <<>>
         ELSE << [df |-> rdrs_df, s3_key |-> Null] >>
    ELSE LET k == Head(s3_keys)
             sel == SelectSeq(rdrs_df, LAMBDA r : AssignedTo(r, k))
         IN  (IF sel = <<>> THEN <<>> ELSE << [df |-> sel, s3_key |-> Some(k)] >>)
             \o WalkKeysKeepingRows(Tail(s3_keys), rdrs_df)

\* the loop over sorted(s3_keys): the rows whose prefix is less than the
\* key go to the key's RDP and leave rdrs_df; what is left after the last
\* key goes to an RDP with no key
RECURSIVE WalkKeys(_, _)
WalkKeys(s3_keys, rdrs_df) ==
    IF s3_keys = <<>>
    THEN IF rdrs_df = <<>> THEN <<>>
         ELSE << [df |-> rdrs_df, s3_key |-> Null] >>
    ELSE LET k == Head(s3_keys)
             sel == SelectSeq(rdrs_df, LAMBDA r : AssignedTo(r, k))
             rest == SelectSeq(rdrs_df, LAMBDA r : ~AssignedTo(r, k))
         IN  (IF sel = <<>> THEN <<>> ELSE << [df |-> sel, s3_key |-> Some(k)] >>)
             \o WalkKeys(Tail(s3_keys), rest)

partitions_from_firehose_record_group(st, model_name, records) ==
    LET rdrs_df == get_sorted_s3_prefixes(records)
        start_after_key == parquet_s3_key_prefix(rdrs_df[1].decision_id)
        s3_keys == list_partitions_after(st, model_name, start_after_key)
    IN  IF Len(s3_keys) = 0
        THEN << [df |-> rdrs_df, s3_key |-> Null] >>
        ELSE WalkKeys(s3_keys, rdrs_df)

(***************************************************************************)
(* get_all_overlaps: the keys' closed [min_ts, max_ts] intervals sorted by *)
(* their lower end, then swept, an interval joining the group before it    *)
(* when it overlaps the group's domain.                                    *)
(***************************************************************************)
IntervalsOverlap(lo1, hi1, lo2, hi2) ==
    (IF lo1 >= lo2 THEN lo1 ELSE lo2) <= (IF hi1 <= hi2 THEN hi1 ELSE hi2)

KeysOverlap(k1, k2) == IntervalsOverlap(k1.mints, k1.maxts, k2.mints, k2.maxts)

\* list.sort(key = lower end): stable
RECURSIVE SortByLower(_, _)
SortByLower(keys, lowers) ==
    IF lowers = <<>> THEN <<>>
    ELSE SelectSeq(keys, LAMBDA k : k.mints = Head(lowers))
         \o SortByLower(keys, Tail(lowers))

\* (a sweep that takes the joined interval's upper end for the group's)
RECURSIVE SweepLastUpper(_, _)
SweepLastUpper(overlaps, intervals) ==
    IF intervals = <<>> THEN overlaps
    ELSE LET n == Len(overlaps)
             pop_element == overlaps[n]
             next_element == Head(intervals)
         IN  IF IntervalsOverlap(pop_element.lo, pop_element.hi,
                                 next_element.mints, next_element.maxts)
             THEN SweepLastUpper(SubSeq(overlaps, 1, n - 1) \o
                        << [lo |-> pop_element.lo, hi |-> next_element.maxts,
                            keys |-> pop_element.keys \cup {next_element}] >>,
                        Tail(intervals))
             ELSE SweepLastUpper(overlaps \o
                        << [lo |-> next_element.mints, hi |-> next_element.maxts,
                            keys |-> {next_element}] >>,
                        Tail(intervals))

\* a group is [lo, hi, keys]
RECURSIVE Sweep(_, _)
Sweep(overlaps, intervals) ==
    IF intervals = <<>> THEN overlaps
    ELSE LET n == Len(overlaps)
             pop_element == overlaps[n]
             next_element == Head(intervals)
         IN  IF IntervalsOverlap(pop_element.lo, pop_element.hi,
                                 next_element.mints, next_element.maxts)
             THEN Sweep(SubSeq(overlaps, 1, n - 1) \o
                        << [lo |-> pop_element.lo,
                            hi |-> IF next_element.maxts > pop_element.hi
                                   THEN next_element.maxts ELSE pop_element.hi,
                            keys |-> pop_element.keys \cup {next_element}] >>,
                        Tail(intervals))
             ELSE Sweep(overlaps \o
                        << [lo |-> next_element.mints, hi |-> next_element.maxts,
                            keys |-> {next_element}] >>,
                        Tail(intervals))

get_all_overlaps(keys_to_repair) ==
    LET train_s3_intervals ==
            SortByLower(keys_to_repair,
                        SortedSeq({k.mints : k \in Range(keys_to_repair)}))
        first == train_s3_intervals[1]
    IN  Sweep(<< [lo |-> first.mints, hi |-> first.maxts, keys |-> {first}] >>,
              Tail(train_s3_intervals))

get_min_decision_id(min_per_partitions) ==
    IF min_per_partitions = {} THEN Null ELSE Some(Min(min_per_partitions))

(***************************************************************************)
(* The store machine.  Each worker runs worker(): it plans the RDPs of its *)
(* input batch, runs process() on each, then repairs.  Every object-store  *)
(* request (list, get, put, delete) is one step and may fail.              *)
(*                                                                         *)
(*   store          the live partitions: objects [key, rows]               *)
(*   unrecoverable  the objects under unrecoverable/                       *)
(*   pc[w]          where worker w stands                                  *)
(*   queue[w]       the planned RDPs not yet handed to process()           *)
(*   rdp[w]         the RDP in process(), or the last one                  *)
(*   mins[w]        min_decision_id of the RDPs w has sorted               *)
(*   rep[w]         the repair pass: components left, keys left to load    *)
(*   pass[w]        what the pass saw: puts so far, a dropped read, the    *)
(*                  store free of overlaps when it was planned (by the     *)
(*                  keys' intervals, by the rows' decision_ids), the       *)
(*                  components repaired, a delete that left keys behind,   *)
(*                  the input batch, the first exception of a future       *)
(*   sched          how the workers are run: "fleet" (uncoordinated, any   *)
(*                  interleaving), "serial" (one after the other) or       *)
(*                  "rerun" (worker 2 is the second attempt of worker 1's  *)
(*                  job, on the same input file), "shared" (serial, the    *)
(*                  bucket holding a partition of another model)           *)
(*   SIGTERM[w]     the termination flag of worker w's process             *)
(***************************************************************************)
VARIABLES store, unrecoverable, pc, queue, rdp, mins, rep, pass, sched, SIGTERM

\* the bucket's past: the objects that delete_object and delete_objects
\* have removed so far
VARIABLES removed

\* the merge machine's: the tables so far, the operations applied
VARIABLES mHist, mOps

mergeVars == <<mHist, mOps>>

\* the overlap machine's: the keys handed to get_all_overlaps, what it
\* returned
VARIABLES oKeys, oOverlaps

overlapVars == <<oKeys, oOverlaps>>

\* the functions that are checked on their own: the arguments of the call
\* and, once the call is made, what it returned
VARIABLES args, result

callVars == <<args, result>>

\* no call is looked at
CallIdle ==
    /\ args = <<>>
    /\ result = <<>>

storeVars ==
    <<store, unrecoverable, pc, queue, rdp, mins, rep, pass, sched, SIGTERM,
      removed>>

Workers == 1 .. NumWorkers

\* the input files: each worker is given one of its own (the fleet splits
\* the files among the workers), holding the records of one model
Batches(w) ==
    IF w = 1
    THEN {<<DecisionRDR(Id(1, 0), "a", Null), DecisionRDR(Id(2, 0), "a", Null),
            DecisionRDR(Id(2, 1), "a", Null)>>,
          <<DecisionRDR(Id(2, 0), "a", Null), RewardRDR(Id(2, 0), 11, 1)>>}
    ELSE {<<RewardRDR(Id(2, 1), 11, 1)>>,
          <<RewardRDR(Id(1, 0), 12, 2)>>}

\* the input file of a job that is run again
RerunFile ==
    <<DecisionRDR(Id(1, 0), "a", Null), DecisionRDR(Id(2, 0), "a", Null),
      DecisionRDR(Id(2, 1), "a", Null), RewardRDR(Id(2, 0), 11, 1)>>

\* the input files worker w may be started on
InputFiles(w) == IF sched = "rerun" THEN {RerunFile} ELSE Batches(w)

\* what the bucket may hold before the workers start: nothing, a partition
\* an earlier run wrote, or a file with a decision_id that is no KSUID
OldKey == parquet_s3_key(ModelName, Id(2, 0), Id(2, 0), 1, 0)
OldObject == [key |-> OldKey, rows |-> MergeSorted(<<DecisionRDR(Id(2, 0), "a", Null)>>)]
BadKey == parquet_s3_key(ModelName, Id(2, 0), Id(2, 0), 2, 0)
BadObject ==
    [key |-> BadKey,
     rows |-> MergeSorted(<<DecisionRDR(BadId, "a", Null),
                            DecisionRDR(Id(2, 0), "a", Null)>>)]
\* the same in the second before, so that a batch reaching over both
\* seconds has an RDP for it and an RDP for the rest
EarlyBadKey == parquet_s3_key(ModelName, Id(1, 0), Id(1, 0), 2, 0)
EarlyBadObject ==
    [key |-> EarlyBadKey,
     rows |-> MergeSorted(<<DecisionRDR(BadId, "a", Null),
                            DecisionRDR(Id(1, 0), "a", Null)>>)]
InitialStores == {{}, {OldObject}, {BadObject}, {EarlyBadObject}}

\* a partition of another model in the same bucket, its interval over both
\* seconds
OtherModelName == "n"
OtherKey == parquet_s3_key(OtherModelName, Id(1, 0), Id(2, 0), 2, 0)
OtherObject ==
    [key |-> OtherKey,
     rows |-> MergeSorted(<<DecisionRDR(Id(1, 0), "a", Null),
                            DecisionRDR(Id(2, 0), "a", Null)>>)]

\* what the bucket may hold when two models share it
SharedStores == {st \cup {OtherObject} : st \in InitialStores}

\* the buckets the workers may start on
StartStores(mode) == IF mode = "shared" THEN SharedStores ELSE InitialStores

NoRDP ==
    [df |-> <<>>, s3_key |-> Null, attached |-> Null, incoming |-> <<>>,
     existing |-> <<>>, loaded |-> "no", chunks |-> <<>>, written |-> <<>>,
     deleted |-> FALSE, origin |-> "none", state |-> "none"]

NewRDP(df, s3_key, origin) ==
    [NoRDP EXCEPT !.df = df, !.s3_key = s3_key, !.attached = s3_key,
                  !.incoming = df, !.origin = origin, !.state = "running"]

NoRepair == [overlaps |-> <<>>, toLoad |-> {}, dfs |-> <<>>, keys |-> {}]

NoPass ==
    [puts |-> 0, readFailed |-> FALSE, cleanStart |-> FALSE, cleanIds |-> FALSE,
     repairs |-> 0, partial |-> FALSE, listed |-> FALSE, records |-> <<>>,
     raised |-> "none"]

\* what is left of a pass that an exception ended: the exception
Ended(exception) == [NoPass EXCEPT !.raised = exception]

StoreStart(mode) ==
    /\ store \in StartStores(mode)
    /\ unrecoverable = {}
    /\ pc = [w \in Workers |-> "start"]
    /\ queue = [w \in Workers |-> <<>>]
    /\ rdp = [w \in Workers |-> NoRDP]
    /\ mins = [w \in Workers |-> {}]
    /\ rep = [w \in Workers |-> NoRepair]
    /\ pass = [w \in Workers |-> NoPass]
    /\ sched = mode
    /\ SIGTERM = [w \in Workers |-> FALSE]
    /\ removed = {}

\* the state of the store machine in the specifications that do not use it
StoreIdle ==
    /\ store = {}
    /\ unrecoverable = {}
    /\ pc = [w \in Workers |-> "done"]
    /\ queue = [w \in Workers |-> <<>>]
    /\ rdp = [w \in Workers |-> NoRDP]
    /\ mins = [w \in Workers |-> {}]
    /\ rep = [w \in Workers |-> NoRepair]
    /\ pass = [w \in Workers |-> NoPass]
    /\ sched = "fleet"
    /\ SIGTERM = [w \in Workers |-> FALSE]
    /\ removed = {}

\* no two live partitions of the model have overlapping key intervals
NoOverlap(st) ==
    \A k1, k2 \in LiveKeys(st) :
        k1 # k2 /\ k1.model = k2.model => ~KeysOverlap(k1, k2)

\* no decision_id lies within the decision_id range of two live partitions
IdRange(o) == Min(Ids(o.rows)) .. Max(Ids(o.rows))
NoIdOverlap(st) ==
    \A o1, o2 \in st : o1 # o2 => IdRange(o1) \cap IdRange(o2) = {}

(***************************************************************************)
(* process(): load, filter_valid, sort, merge, save, cleanup.  The phases  *)
(* that touch the store are steps; sort and merge run with the load.       *)
(***************************************************************************)
\* (a process() that deletes the old file before it saves)
PhaseAfterDeleteFirst(phase) ==
    CASE phase = "load" -> "cleanup"
      [] phase = "cleanup" -> "save"
      [] phase = "save" -> "return"

PhaseAfter(phase) ==
    CASE phase = "load" -> "save"
      [] phase = "save" -> "cleanup"
      [] phase = "cleanup" -> "return"

\* (a load() that deletes the invalid file before it copies it)
InvalidPhaseAfterDeleteFirst(phase) ==
    CASE phase = "load" -> "unrec_delete"
      [] phase = "unrec_delete" -> "unrec_put"
      [] phase = "unrec_put" -> "raise"

\* load() on a file with invalid rows: to_parquet(unrecoverable/<key>),
\* delete_object(<key>), raise ValueError
InvalidPhaseAfter(phase) ==
    CASE phase = "load" -> "unrec_put"
      [] phase = "unrec_put" -> "unrec_delete"
      [] phase = "unrec_delete" -> "raise"

\* no other worker is between its first and its last request
Alone(w) ==
    \A v \in Workers \ {w} : pc[v] \in {"start", "done", "failed", "exited"}

\* worker w may take a step
Runs(w) ==
    CASE sched = "fleet" -> TRUE
      [] sched \in {"serial", "shared"} -> Alone(w)
      [] sched = "rerun" -> Alone(w) /\ \A v \in 1 .. w - 1 : pc[v] # "start"

\* the first exception among the futures, in the order of the RDPs: the
\* one that executor.map raises in worker()
FirstRaised(w, exception) ==
    IF pass[w].raised = "none" THEN exception ELSE pass[w].raised

\* where worker w goes when its RDP leaves a phase
PcAfter(w, next) ==
    CASE next = "return" ->
            IF rdp[w].origin = "repair" THEN "repair_delete" ELSE "dispatch"
      [] next = "raise" -> "dispatch"
      [] OTHER -> next

\* what the future of worker w's RDP keeps when the RDP leaves a phase
PassAfter(w, next) ==
    IF next = "raise"
    THEN [pass EXCEPT ![w].raised = FirstRaised(w, "Exception")]
    ELSE pass

StateAfter(next) ==
    CASE next = "return" -> "returned"
      [] next = "raise" -> "raised"
      [] OTHER -> "running"

\* worker(): load_groups and partitions_from_firehose_record_group on the
\* input batch
Plan(w) ==
    /\ Runs(w)
    /\ pc[w] = "start"
    /\ \E records \in InputFiles(w) :
          /\ queue' = [queue EXCEPT ![w] =
                         partitions_from_firehose_record_group(store, ModelName, records)]
          /\ pass' = [pass EXCEPT ![w].cleanStart = NoOverlap(store),
                                  ![w].cleanIds = NoIdOverlap(store),
                                  ![w].records = records]
    /\ pc' = [pc EXCEPT ![w] = "dispatch"]
    /\ UNCHANGED <<store, unrecoverable, rdp, mins, rep, sched, SIGTERM, removed, mHist, mOps, oKeys, oOverlaps, args, result>>

\* (a process_decisions that does not look at the flag)
process_decisions_unchecked(flag) == "process"

\* process_decisions: if SIGTERM: sys.exit(); decision_partition.process()
process_decisions(flag) == IF flag THEN "sys.exit" ELSE "process"

\* a pool thread takes the next queued RDP and calls process_decisions,
\* which calls sys.exit() if SIGTERM is set and process() otherwise; when
\* every future has returned worker() goes on to repair.  (The RDPs of a
\* worker are run one at a time.)
Dispatch(w) ==
    /\ Runs(w)
    /\ pc[w] = "dispatch"
    /\ IF queue[w] # <<>>
       THEN LET next == NewRDP(Head(queue[w]).df, Head(queue[w]).s3_key, "ingest") IN
            /\ queue' = [queue EXCEPT ![w] = Tail(queue[w])]
            /\ IF process_decisions(SIGTERM[w]) = "sys.exit"
               THEN /\ rdp' = [rdp EXCEPT ![w] = [next EXCEPT !.state = "exited"]]
                    /\ pass' = [pass EXCEPT ![w].raised = FirstRaised(w, "SystemExit")]
                    /\ UNCHANGED pc
               ELSE /\ rdp' = [rdp EXCEPT ![w] = next]
                    /\ pc' = [pc EXCEPT ![w] = "load"]
                    /\ UNCHANGED pass
       ELSE /\ pass[w].raised = "none"
            /\ pc' = [pc EXCEPT ![w] = "repair_list"]
            /\ UNCHANGED <<rdp, queue, pass>>
    /\ UNCHANGED <<store, unrecoverable, mins, rep, sched, SIGTERM, removed, mHist, mOps, oKeys, oOverlaps, args, result>>

\* list(executor.map(...)): the result iterator raises the first exception
\* in worker(), which cancels the futures still queued and ends the process:
\* SystemExit with status 0, any other exception with a traceback
Reraise(w) ==
    /\ Runs(w)
    /\ pc[w] = "dispatch"
    /\ pass[w].raised # "none"
    /\ pc' = [pc EXCEPT ![w] = IF pass[w].raised = "SystemExit" THEN "exited" ELSE "failed"]
    /\ queue' = [queue EXCEPT ![w] = <<>>]
    /\ mins' = [mins EXCEPT ![w] = {}]
    /\ pass' = [pass EXCEPT ![w] = Ended(pass[w].raised)]
    /\ UNCHANGED <<store, unrecoverable, rdp, rep, sched, SIGTERM, removed, mHist, mOps, oKeys, oOverlaps, args, result>>

\* signal_handler: SIGTERM = True
signal_handler(w) ==
    /\ Runs(w)
    /\ pc[w] \notin {"done", "failed", "exited"}
    /\ ~SIGTERM[w]
    /\ SIGTERM' = [SIGTERM EXCEPT ![w] = TRUE]
    /\ UNCHANGED <<store, unrecoverable, pc, queue, rdp, mins, rep, pass, sched, removed, mHist, mOps, oKeys, oOverlaps, args, result>>

\* (a load() that forgets the rows it read)
concat_incoming_only(df, s3_df) == df

\* load(): pd.concat([self.df, s3_df])
concat(df, s3_df) == df \o s3_df

\* filter_valid(): a placeholder, removes nothing
filter_valid(df) == df

\* sort() and merge() on the loaded table, and the chunks save() will write
Merged(w, r, df, next) ==
    \E m \in MergeOutcomes(filter_valid(df)) :
        /\ rdp' = [rdp EXCEPT ![w] =
                     [r EXCEPT !.df = m,
                               !.chunks = split(m, PARQUET_FILE_MAX_DECISION_RECORDS),
                               !.state = StateAfter(next)]]
        /\ mins' = [mins EXCEPT ![w] =
                      IF r.origin = "ingest"
                      THEN mins[w] \cup {Min(Ids(df))} ELSE mins[w]]

\* load(): no key, or the file is read
Load(w) ==
    /\ Runs(w)
    /\ pc[w] = "load"
    /\ LET r == rdp[w] IN
       IF IsNull(r.s3_key)
       THEN /\ Merged(w, r, r.df, PhaseAfter("load"))
            /\ pc' = [pc EXCEPT ![w] = PcAfter(w, PhaseAfter("load"))]
       ELSE /\ r.s3_key[1] \in LiveKeys(store)
            /\ LET s3_df == RowsOf(store, r.s3_key[1]) IN
               IF \A i \in DOMAIN s3_df : IsValidMessageId(s3_df[i].decision_id)
               THEN /\ Merged(w, [r EXCEPT !.existing = s3_df, !.loaded = "ok"],
                              concat(r.df, s3_df), PhaseAfter("load"))
                    /\ pc' = [pc EXCEPT ![w] = PcAfter(w, PhaseAfter("load"))]
               ELSE /\ rdp' = [rdp EXCEPT ![w] =
                                 [r EXCEPT !.existing = s3_df, !.loaded = "invalid"]]
                    /\ pc' = [pc EXCEPT ![w] = PcAfter(w, InvalidPhaseAfter("load"))]
                    /\ UNCHANGED mins
    /\ UNCHANGED <<store, unrecoverable, queue, rep, pass, sched, SIGTERM, removed, mHist, mOps, oKeys, oOverlaps, args, result>>

\* (a load() that keeps the key of the file it could not read)
keep_key(r) == [r EXCEPT !.loaded = "ioerror"]

\* load(), except IOError: self.s3_key = None
drop_key(r) == [r EXCEPT !.s3_key = Null, !.loaded = "ioerror"]

\* load(): read_parquet raises IOError (the key is gone, or the read fails):
\* the key is dropped and only the incoming RDRs are processed
LoadIOError(w) ==
    /\ Runs(w)
    /\ pc[w] = "load"
    /\ ~IsNull(rdp[w].s3_key)
    /\ Merged(w, drop_key(rdp[w]), rdp[w].df, PhaseAfter("load"))
    /\ pc' = [pc EXCEPT ![w] = PcAfter(w, PhaseAfter("load"))]
    /\ pass' = [pass EXCEPT ![w].readFailed = TRUE]
    /\ UNCHANGED <<store, unrecoverable, queue, rep, sched, SIGTERM, removed, mHist, mOps, oKeys, oOverlaps, args, result>>

\* load(): s3_df.to_parquet(unrecoverable/<key>)
UnrecoverablePut(w) ==
    /\ Runs(w)
    /\ pc[w] = "unrec_put"
    /\ unrecoverable' = unrecoverable \cup
            {[key |-> rdp[w].s3_key[1], rows |-> rdp[w].existing]}
    /\ pc' = [pc EXCEPT ![w] = PcAfter(w, InvalidPhaseAfter("unrec_put"))]
    /\ rdp' = [rdp EXCEPT ![w].state = StateAfter(InvalidPhaseAfter("unrec_put"))]
    /\ pass' = PassAfter(w, InvalidPhaseAfter("unrec_put"))
    /\ UNCHANGED <<store, queue, mins, rep, sched, SIGTERM, removed, mHist, mOps, oKeys, oOverlaps, args, result>>

\* load(): s3client.delete_object(Key = self.s3_key)
UnrecoverableDelete(w) ==
    /\ Runs(w)
    /\ pc[w] = "unrec_delete"
    /\ store' = {o \in store : o.key # rdp[w].s3_key[1]}
    /\ pc' = [pc EXCEPT ![w] = PcAfter(w, InvalidPhaseAfter("unrec_delete"))]
    /\ rdp' = [rdp EXCEPT ![w].deleted = TRUE,
                          ![w].state = StateAfter(InvalidPhaseAfter("unrec_delete"))]
    /\ pass' = PassAfter(w, InvalidPhaseAfter("unrec_delete"))
    /\ removed' = removed \cup {o \in store : o.key = rdp[w].s3_key[1]}
    /\ UNCHANGED <<unrecoverable, queue, mins, rep, sched, SIGTERM, mHist, mOps, oKeys, oOverlaps, args, result>>

\* uuid4(): a name no other put has
Uuid(w) == 10 * w + pass[w].puts

\* save(): the next chunk is written under a fresh key
SaveChunk(w) ==
    /\ Runs(w)
    /\ pc[w] = "save"
    /\ LET r == rdp[w]
           i == Len(r.written) + 1
           chunk == r.chunks[i]
           last == i = Len(r.chunks)
       IN  /\ LET chunk_s3_key ==
                      parquet_s3_key(ModelName, chunk[1].decision_id,
                                     chunk[Len(chunk)].decision_id, Len(chunk), Uuid(w))
              IN  /\ store' = store \cup {[key |-> chunk_s3_key, rows |-> chunk]}
                  /\ rdp' = [rdp EXCEPT ![w].written = Append(r.written, chunk_s3_key),
                                        ![w].state = IF last THEN StateAfter(PhaseAfter("save"))
                                                     ELSE "running"]
           /\ pc' = [pc EXCEPT ![w] = IF last THEN PcAfter(w, PhaseAfter("save")) ELSE "save"]
    /\ pass' = [pass EXCEPT ![w].puts = pass[w].puts + 1]
    /\ UNCHANGED <<unrecoverable, queue, mins, rep, sched, SIGTERM, removed, mHist, mOps, oKeys, oOverlaps, args, result>>

\* cleanup(): delete the attached key, if it is still attached
Cleanup(w) ==
    /\ Runs(w)
    /\ pc[w] = "cleanup"
    /\ IF IsNull(rdp[w].s3_key)
       THEN /\ UNCHANGED <<store, removed>>
            /\ rdp' = [rdp EXCEPT ![w].state = StateAfter(PhaseAfter("cleanup"))]
       ELSE /\ store' = {o \in store : o.key # rdp[w].s3_key[1]}
            /\ removed' = removed \cup {o \in store : o.key = rdp[w].s3_key[1]}
            /\ rdp' = [rdp EXCEPT ![w].deleted = TRUE,
                                  ![w].state = StateAfter(PhaseAfter("cleanup"))]
    /\ pc' = [pc EXCEPT ![w] = PcAfter(w, PhaseAfter("cleanup"))]
    /\ UNCHANGED <<unrecoverable, queue, mins, rep, pass, sched, SIGTERM, mHist, mOps, oKeys, oOverlaps, args, result>>

\* the RDP of worker w runs in a pool thread
InPool(w) ==
    /\ pc[w] \in {"load", "unrec_put", "unrec_delete", "save", "cleanup"}
    /\ rdp[w].origin = "ingest"

\* the pending request (or the computation before it) raises and nothing
\* catches it: in a pool thread the future keeps the exception; in worker()
\* and in repair the process ends and what it held is gone
Raise(w) ==
    /\ Runs(w)
    /\ pc[w] \in {"start", "load", "unrec_put", "unrec_delete", "save", "cleanup",
                  "repair_list", "repair_get", "repair_delete"}
    /\ rdp' = [rdp EXCEPT ![w].state =
                  IF rdp[w].state = "running" THEN "raised" ELSE rdp[w].state]
    /\ IF InPool(w)
       THEN /\ pc' = [pc EXCEPT ![w] = "dispatch"]
            /\ pass' = [pass EXCEPT ![w].raised = FirstRaised(w, "Exception")]
            /\ UNCHANGED <<queue, mins, rep>>
       ELSE /\ pc' = [pc EXCEPT ![w] = "failed"]
            /\ queue' = [queue EXCEPT ![w] = <<>>]
            /\ mins' = [mins EXCEPT ![w] = {}]
            /\ rep' = [rep EXCEPT ![w] = NoRepair]
            /\ pass' = [pass EXCEPT ![w] = Ended("Exception")]
    /\ UNCHANGED <<store, unrecoverable, sched, SIGTERM, removed, mHist, mOps, oKeys, oOverlaps, args, result>>

(***************************************************************************)
(* repair_overlapping_keys(model_name, partitions).  worker() passes the   *)
(* group iterator of itertools.groupby, which the assert loop exhausts, so *)
(* that get_min_decision_id sees no partition; a caller that passes a list *)
(* gets the minimum over the processed RDPs.                               *)
(***************************************************************************)
get_unique_overlapping_keys(single_overlap_keys) == single_overlap_keys.keys

\* (every component, those of one key too)
ComponentsToRepairAll(train_s3_keys) == get_all_overlaps(Reverse(train_s3_keys))

\* the components of two or more keys
ComponentsToRepair(train_s3_keys) ==
    SelectSeq(get_all_overlaps(Reverse(train_s3_keys)),
              LAMBDA overlap : Cardinality(get_unique_overlapping_keys(overlap)) > 1)

StartComponent(w, overlaps) ==
    IF overlaps = <<>>
    THEN /\ rep' = [rep EXCEPT ![w] = NoRepair]
         /\ pc' = [pc EXCEPT ![w] = "done"]
    ELSE /\ rep' = [rep EXCEPT ![w] =
                      [overlaps |-> overlaps,
                       toLoad |-> get_unique_overlapping_keys(Head(overlaps)),
                       dfs |-> <<>>,
                       keys |-> get_unique_overlapping_keys(Head(overlaps))]]
         /\ pc' = [pc EXCEPT ![w] = "repair_get"]

\* get_min_decision_id, list_partitions_after, get_all_overlaps
RepairList(w) ==
    /\ Runs(w)
    /\ pc[w] = "repair_list"
    /\ \E is_list \in BOOLEAN :
          LET partitions == IF is_list THEN mins[w] ELSE {}
              min_decision_id == get_min_decision_id(partitions)
          IN  IF IsNull(min_decision_id)
              THEN \* parquet_s3_key_prefix(model_name, None) raises
                   /\ pc' = [pc EXCEPT ![w] = "failed"]
                   /\ pass' = [pass EXCEPT ![w] = Ended("TypeError")]
                   /\ UNCHANGED rep
              ELSE LET train_s3_keys ==
                           list_partitions_after(
                               store, ModelName,
                               parquet_s3_key_prefix(min_decision_id[1]))
                   IN  /\ pass' = [pass EXCEPT ![w].listed = TRUE]
                       /\ IF Len(train_s3_keys) <= 1
                          THEN StartComponent(w, <<>>)
                          ELSE StartComponent(w, ComponentsToRepair(train_s3_keys))
    /\ mins' = [mins EXCEPT ![w] = {}]
    /\ UNCHANGED <<store, unrecoverable, queue, rdp, sched, SIGTERM, removed, mHist, mOps, oKeys, oOverlaps, args, result>>

\* pd.read_parquet of the next key of the component (the keys are taken in
\* key order: the merge does not depend on the order of the concatenation);
\* after the last one the RDP with no attached key is built
RepairGet(w) ==
    /\ Runs(w)
    /\ pc[w] = "repair_get"
    /\ LET s3_key == CHOOSE k \in rep[w].toLoad :
                         \A k2 \in rep[w].toLoad \ {k} : KeyLess(k, k2)
           left == rep[w].toLoad \ {s3_key}
       IN  /\ s3_key \in LiveKeys(store)
           /\ LET dfs == rep[w].dfs \o RowsOf(store, s3_key) IN
              IF left = {}
              THEN /\ rdp' = [rdp EXCEPT ![w] = NewRDP(dfs, Null, "repair")]
                   /\ rep' = [rep EXCEPT ![w].toLoad = left, ![w].dfs = <<>>]
                   /\ pc' = [pc EXCEPT ![w] = "load"]
              ELSE /\ rep' = [rep EXCEPT ![w].toLoad = left, ![w].dfs = dfs]
                   /\ pc' = [pc EXCEPT ![w] = "repair_get"]
                   /\ UNCHANGED rdp
    /\ UNCHANGED <<store, unrecoverable, queue, mins, pass, sched, SIGTERM, removed, mHist, mOps, oKeys, oOverlaps, args, result>>

\* what a batch delete may do: delete every key, or fail on one of them
DeleteOutcomes(keys) == {keys} \cup {keys \ {k} : k \in keys}

\* s3client.delete_objects(keys): the response, which names the keys that
\* could not be deleted, is not looked at
RepairDelete(w) ==
    /\ Runs(w)
    /\ pc[w] = "repair_delete"
    /\ \E deleted \in DeleteOutcomes(rep[w].keys) :
          /\ store' = {o \in store : o.key \notin deleted}
          /\ removed' = removed \cup {o \in store : o.key \in deleted}
          /\ pass' = [pass EXCEPT ![w].repairs = 1,
                                  ![w].partial = pass[w].partial \/ deleted # rep[w].keys]
    /\ StartComponent(w, Tail(rep[w].overlaps))
    /\ UNCHANGED <<unrecoverable, queue, rdp, mins, sched, SIGTERM, mHist, mOps, oKeys, oOverlaps, args, result>>

StoreStep(w) ==
    \/ Plan(w)
    \/ Dispatch(w)
    \/ Load(w)
    \/ LoadIOError(w)
    \/ UnrecoverablePut(w)
    \/ UnrecoverableDelete(w)
    \/ SaveChunk(w)
    \/ Cleanup(w)
    \/ Raise(w)
    \/ Reraise(w)
    \/ RepairList(w)
    \/ RepairGet(w)
    \/ RepairDelete(w)

(***************************************************************************)
(* The merge machine: a table of incoming RDRs is drawn, and merge(),      *)
(* concatenation with itself and reordering are applied to it.  mHist is   *)
(* the sequence of tables so far (the last one is the current table),      *)
(* mOps the operations that led from each to the next.                     *)
(***************************************************************************)
\* the rows the tables are drawn from: two decisions and three rewards of
\* one decision_id (colliding fields, a repeated message_id, a colliding
\* reward), a decision and a reward of another
MergeRows ==
    {DecisionRDR(Id(1, 0), "a", Null), DecisionRDR(Id(1, 0), "b", Some("g")),
     RewardRDR(Id(1, 0), 11, 1), RewardRDR(Id(1, 0), 11, 2),
     RewardRDR(Id(1, 0), 12, 2),
     DecisionRDR(Id(1, 1), "a", Null), RewardRDR(Id(1, 1), 11, 1)}

Tables(n) == UNION {[1 .. k -> MergeRows] : k \in 1 .. n}

\* the sequences of operations applied to a drawn table
OpSeqs ==
    {<<"merge">>, <<"merge", "merge">>, <<"merge", "dup">>,
     <<"merge", "dup", "merge">>, <<"dup">>, <<"dup", "merge">>,
     <<"perm">>, <<"perm", "merge">>}

Cur == mHist[Len(mHist)]

MergeInit ==
    /\ mHist \in {<<t>> : t \in Tables(MaxTable)}
    /\ mOps = <<>>

\* the state of the merge machine in the specifications that do not use it
MergeIdle ==
    /\ mHist = <<>>
    /\ mOps = <<>>

\* sort() then merge() on the current table
DoMerge ==
    /\ Append(mOps, "merge") \in OpSeqs
    /\ \E m \in MergeOutcomes(Cur) :
          /\ mHist' = Append(mHist, m)
          /\ mOps' = Append(mOps, "merge")
    /\ UNCHANGED <<storeVars, overlapVars, callVars>>

\* the same batch delivered twice
DoConcatSelf ==
    /\ Append(mOps, "dup") \in OpSeqs
    /\ mHist' = Append(mHist, Cur \o Cur)
    /\ mOps' = Append(mOps, "dup")
    /\ UNCHANGED <<storeVars, overlapVars, callVars>>

\* the records of the batch in another order
DoPermute ==
    /\ Append(mOps, "perm") \in OpSeqs
    /\ \E t \in PermSeqs(Cur) :
          /\ t # Cur
          /\ mHist' = Append(mHist, t)
          /\ mOps' = Append(mOps, "perm")
    /\ UNCHANGED <<storeVars, overlapVars, callVars>>

MergeNext == DoMerge \/ DoConcatSelf \/ DoPermute

(***************************************************************************)
(* The overlap machine: a list of keys, in any order, is handed to         *)
(* get_all_overlaps.                                                       *)
(***************************************************************************)
\* the keys of the partitions whose rows lie in the seconds 1 .. MaxSecond,
\* two for every interval
IntervalKeys ==
    {parquet_s3_key(ModelName, Id(p[1], 0), Id(p[2], 0), 1, u) :
        p \in {q \in (1 .. MaxSecond) \X (1 .. MaxSecond) : q[1] <= q[2]},
        u \in {0, 1}}

\* the lists of up to MaxKeys different keys, in every order
KeyLists ==
    {ks \in UNION {[1 .. n -> IntervalKeys] : n \in 1 .. MaxKeys} :
        \A i, j \in DOMAIN ks : i # j => ks[i] # ks[j]}

OverlapInit ==
    /\ oKeys \in KeyLists
    /\ oOverlaps = <<>>

OverlapIdle ==
    /\ oKeys = <<>>
    /\ oOverlaps = <<>>

\* repair_overlapping_keys: overlaps = get_all_overlaps(train_s3_keys)
DoGetAllOverlaps ==
    /\ oKeys # <<>>
    /\ oOverlaps = <<>>
    /\ oOverlaps' = get_all_overlaps(oKeys)
    /\ UNCHANGED <<oKeys, storeVars, mergeVars, callVars>>

OverlapNext == DoGetAllOverlaps

vars ==
    <<store, unrecoverable, pc, queue, rdp, mins, rep, pass, sched, SIGTERM,
      removed, mHist, mOps, oKeys, oOverlaps, args, result>>

\* the merge machine alone
InitMerge == MergeInit /\ StoreIdle /\ OverlapIdle /\ CallIdle

\* the overlap machine alone
InitOverlaps == OverlapInit /\ StoreIdle /\ MergeIdle /\ CallIdle

SpecOverlaps == InitOverlaps /\ [][OverlapNext]_vars

SpecMerge == InitMerge /\ [][MergeNext]_vars

\* uncoordinated workers: every interleaving of their requests
Init == StoreStart("fleet") /\ MergeIdle /\ OverlapIdle /\ CallIdle

InitSeq == StoreStart("serial") /\ MergeIdle /\ OverlapIdle /\ CallIdle

Next == \E w \in Workers : StoreStep(w)

Spec == Init /\ [][Next]_vars

\* one worker at a time: no concurrent writer
SpecSeq == InitSeq /\ [][Next]_vars

\* one worker at a time, and SIGTERM or SIGINT may reach a worker at any
\* moment
InitTerm == StoreStart("serial") /\ MergeIdle /\ OverlapIdle /\ CallIdle

NextTerm == \E w \in Workers : StoreStep(w) \/ signal_handler(w)

SpecTerm == InitTerm /\ [][NextTerm]_vars

\* a job and its second attempt (BATCH_JOB_ATTEMPT = 2) on the same input
\* file, with no other writer
InitRerun == StoreStart("rerun") /\ MergeIdle /\ OverlapIdle /\ CallIdle

SpecRerun == InitRerun /\ [][Next]_vars

\* the workers one after the other, on a bucket that holds a partition of
\* another model
InitShared == StoreStart("shared") /\ MergeIdle /\ OverlapIdle /\ CallIdle

SpecShared == InitShared /\ [][Next]_vars

(***************************************************************************)
(* Claims about merge.                                                     *)
(***************************************************************************)
LastOps(k) == SubSeq(mOps, Len(mOps) - k + 1, Len(mOps))
EndsWith(ops) == Len(mOps) >= Len(ops) /\ LastOps(Len(ops)) = ops
\* the table k operations ago
Back(k) == mHist[Len(mHist) - k]

RewardCells(df, d) == Dicts(Column(Group(df, d), "rewards"))

\* rows of one decision_id carry equal decision fields, and a reward
\* message_id that occurs several times carries one value
Agree(df) ==
    \A i, j \in DOMAIN df :
        df[i].decision_id = df[j].decision_id =>
            /\ IsNull(df[i].variant) \/ IsNull(df[j].variant)
                  \/ df[i].variant = df[j].variant
            /\ IsNull(df[i].givens) \/ IsNull(df[j].givens)
                  \/ df[i].givens = df[j].givens
            /\ IsNull(df[i].rewards) \/ IsNull(df[j].rewards)
                  \/ \A k \in MapKeys(df[i].rewards[1]) \cap MapKeys(df[j].rewards[1]) :
                        MapGet(df[i].rewards[1], k) = MapGet(df[j].rewards[1], k)

\* C5 as stated: merge(merge(t)) = merge(t), and merge(t ++ t) = merge(t),
\* for every table t.
C5_MergeIdempotentAnyTable ==
    /\ EndsWith(<<"merge", "merge">>) => Back(0) = Back(1)
    /\ EndsWith(<<"dup", "merge">>) =>
          \A m \in MergeOutcomes(Back(2)) : Back(0) = m

\* C5 amended: merge(merge(t)) = merge(t) for every table t, and
\* merge(t ++ t) = merge(t) for every table t whose rows of one decision_id
\* agree on their non-null fields and on the value of each reward message_id.
C5_MergeIdempotent ==
    /\ EndsWith(<<"merge", "merge">>) => Back(0) = Back(1)
    /\ EndsWith(<<"dup", "merge">>) /\ Agree(Back(2)) =>
          \A m \in MergeOutcomes(Back(2)) : Back(0) = m

\* a batch with a decision, its reward twice and a second decision_id was
\* concatenated with itself and merged
C5_Witness ==
    /\ mOps = <<"dup", "merge">>
    /\ Agree(Back(2))
    /\ Len(Back(2)) = 3
    /\ Len(Back(0)) = 2
    /\ \E i \in DOMAIN Back(0) :
          ~IsNull(Back(0)[i].variant) /\ Back(0)[i].reward = Some(2)

\* C6 as stated: merging a permutation of the batch gives the same table as
\* merging the batch, for every batch.
C6_MergeCommutativeAnyTable ==
    EndsWith(<<"perm", "merge">>) =>
        \A m \in MergeOutcomes(Back(2)) : Back(0) = m

\* C6 amended: merging a permutation of the batch gives the same table as
\* merging the batch (same rows, column values, rewards maps and reward
\* sums) when the rows of one decision_id agree on their non-null fields and
\* on the value of each reward message_id.
C6_MergeCommutative ==
    EndsWith(<<"perm", "merge">>) /\ Agree(Back(2)) =>
        \A m \in MergeOutcomes(Back(2)) : Back(0) = m

\* a reward that came before its decision was moved behind it, and the
\* merge made one row of the two
C6_Witness ==
    /\ mOps = <<"perm", "merge">>
    /\ Agree(Back(2))
    /\ IsNull(Back(2)[1].variant) /\ ~IsNull(Back(1)[1].variant)
    /\ Back(2)[1].decision_id = Back(1)[1].decision_id
    /\ Len(Back(0)) < Len(Back(2))
    /\ ~IsNull(Back(0)[1].variant) /\ Back(0)[1].reward # Some(0)

RECURSIVE SumOverKeys(_, _)
SumOverKeys(S, m) ==
    IF S = {} THEN 0
    ELSE LET k == CHOOSE x \in S : TRUE
         IN  MapGet(m, k) + SumOverKeys(S \ {k}, m)

\* C7: after merge every row's reward is the sum of the values of its
\* rewards map, the map has each reward message_id of the row's input rows
\* once, with a value one of them gave it, and a decision without reward has
\* reward 0.
C7_RewardIsSumOfMergedRewards ==
    EndsWith(<<"merge">>) =>
        \A i \in DOMAIN Back(0) :
            LET row == Back(0)[i]
                cells == RewardCells(Back(1), row.decision_id)
                keys == UNION {MapKeys(cells[c]) : c \in DOMAIN cells}
            IN  /\ ~IsNull(row.rewards) /\ ~IsNull(row.reward)
                /\ MapKeys(row.rewards[1]) = keys
                /\ Len(row.rewards[1]) = Cardinality(keys)
                /\ \A k \in keys :
                      \E c \in DOMAIN cells :
                         /\ k \in MapKeys(cells[c])
                         /\ MapGet(cells[c], k) = MapGet(row.rewards[1], k)
                /\ row.reward[1] = SumOverKeys(keys, row.rewards[1])
                /\ keys = {} => row.reward[1] = 0

\* the same reward of value 2 twice and its decision give reward 2
C7_Witness ==
    /\ mOps = <<"merge">>
    /\ \E i, j \in DOMAIN Back(1) :
          /\ i # j
          /\ Back(1)[i] = RewardRDR(Id(1, 0), 12, 2)
          /\ Back(1)[j] = RewardRDR(Id(1, 0), 12, 2)
    /\ \E k \in DOMAIN Back(1) : ~IsNull(Back(1)[k].variant)
    /\ Len(Back(0)) = 1
    /\ Back(0)[1].rewards = Some(<< <<12, 2>> >>)
    /\ Back(0)[1].reward = Some(2)

(***************************************************************************)
(* Claims about process() and the workers.                                 *)
(***************************************************************************)
\* the rows now stored under the keys worker w's RDP wrote, in the order
\* it wrote them
RECURSIVE WrittenRows(_, _)
WrittenRows(st, s3_keys) ==
    IF s3_keys = <<>> THEN <<>>
    ELSE (IF Head(s3_keys) \in LiveKeys(st) THEN RowsOf(st, Head(s3_keys)) ELSE <<>>)
         \o WrittenRows(st, Tail(s3_keys))

\* what a store holds: the decision_ids, and the reward message_ids with
\* the decision_id they are attached to
Content(st) ==
    UNION {{<<o.rows[i].decision_id>> : i \in DOMAIN o.rows} \cup
           UNION {{<<o.rows[i].decision_id, k>> :
                        k \in (IF IsNull(o.rows[i].rewards) THEN {}
                               ELSE MapKeys(o.rows[i].rewards[1]))} :
                  i \in DOMAIN o.rows} : o \in st}

\* C1: in process(), an RDP whose attached key was loaded deletes that key
\* only when every chunk of save() has been written, and an RDP that a
\* failure ended has not deleted it.
C1_DeleteAfterAllChunksWritten ==
    \A w \in Workers :
        rdp[w].loaded = "ok" =>
            /\ rdp[w].deleted =>
                  /\ Len(rdp[w].written) = Len(rdp[w].chunks)
                  /\ Len(rdp[w].chunks) > 0
            /\ rdp[w].state = "raised" => ~rdp[w].deleted

C1_Witness ==
    \E w \in Workers :
        /\ rdp[w].loaded = "ok"
        /\ rdp[w].deleted
        /\ Len(rdp[w].written) = 2


\* C2: under every interleaving of the workers' and the repair passes'
\* requests, with any of them failing, what the live partitions hold (each
\* decision_id, each reward message_id attached to it) is still held by
\* the live partitions after every step; excepted is what stands in a file
\* that was quarantined under unrecoverable/.
C2_NoRecordLost ==
    [][Content(store) \subseteq Content(store') \cup Content(unrecoverable')]_vars

\* a repair pass and another worker's cleanup have both deleted keys, and
\* both workers failed after that
C2_Witness ==
    \E w, v \in Workers :
        /\ w # v
        /\ pass[w].repairs > 0
        /\ rdp[v].origin = "ingest" /\ rdp[v].loaded = "ok" /\ rdp[v].deleted
        /\ store # {}
        /\ unrecoverable = {}

\* C10: an RDP whose loaded file has an invalid decision_id deletes the
\* file only after its content stands under unrecoverable/<key>, raises,
\* and writes no key: its incoming RDRs are in no live partition it wrote.
C10_InvalidFileQuarantined ==
    \A w \in Workers :
        rdp[w].loaded = "invalid" =>
            /\ rdp[w].written = <<>>
            /\ rdp[w].chunks = <<>>
            /\ rdp[w].state \in {"running", "raised"}
            /\ pc[w] \in {"unrec_put", "unrec_delete", "dispatch", "failed"}
            /\ rdp[w].deleted =>
                  [key |-> rdp[w].attached[1], rows |-> rdp[w].existing] \in unrecoverable

C10_Witness ==
    \E w \in Workers :
        /\ rdp[w].loaded = "invalid"
        /\ rdp[w].deleted
        /\ rdp[w].state = "raised"
        /\ pc[w] = "failed"
        /\ rdp[w].incoming # <<>>
        /\ rdp[w].attached[1] \notin LiveKeys(store)

\* worker w's process() has just returned
Returned(w) == pc[w] = "dispatch" /\ rdp[w].state = "returned"

\* some key the RDP wrote overlaps the key it was given
NewOverlapsOld(r) ==
    \E k \in Range(r.written) : KeysOverlap(k, r.attached[1])

\* C8: with no concurrent writer, when process() returns for an RDP whose
\* attached key was loaded, the keys it wrote hold together exactly
\* merge(existing ++ incoming): one row for each decision_id of the two,
\* every incoming reward in the rewards of its decision_id's row; the
\* attached key is gone and the new keys are live.
C8_ProcessWritesMergeOfExistingAndIncoming ==
    \A w \in Workers :
        Returned(w) /\ rdp[w].loaded = "ok" =>
            LET r == rdp[w]
                rows == WrittenRows(store, r.written)
            IN  /\ rows \in MergeOutcomes(r.incoming \o r.existing)
                /\ Ids(rows) = Ids(r.incoming) \cup Ids(r.existing)
                /\ Len(rows) = Cardinality(Ids(rows))
                /\ \A i \in DOMAIN r.incoming :
                      ~IsNull(r.incoming[i].rewards) =>
                          \E j \in DOMAIN rows :
                              /\ rows[j].decision_id = r.incoming[i].decision_id
                              /\ MapKeys(r.incoming[i].rewards[1])
                                     \subseteq MapKeys(rows[j].rewards[1])
                /\ r.attached[1] \notin LiveKeys(store)
                /\ r.written # <<>>
                /\ Range(r.written) \subseteq LiveKeys(store)

\* the file held a decision, the batch a reward and another decision_id
C8_Witness ==
    \E w \in Workers :
        /\ Returned(w) /\ rdp[w].loaded = "ok"
        /\ \E i \in DOMAIN rdp[w].incoming : ~IsNull(rdp[w].incoming[i].rewards)
        /\ Ids(rdp[w].existing) # Ids(rdp[w].incoming)
        /\ \E j \in DOMAIN rdp[w].existing : ~IsNull(rdp[w].existing[j].variant)

\* what C9 says of an RDP whose read failed, but for the overlap
IOErrorOutcome(w) ==
    LET r == rdp[w] IN
        /\ IsNull(r.s3_key)
        /\ ~r.deleted
        /\ r.attached[1] \in LiveKeys(store)
        /\ r.existing = <<>>
        /\ r.written # <<>>
        /\ Range(r.written) \subseteq LiveKeys(store)
        /\ WrittenRows(store, r.written) \in MergeOutcomes(r.incoming)

\* C9 as stated: when the read of the attached key fails, process() returns
\* having written only the incoming RDRs and not deleted the unreadable
\* object, and the old and the new partitions overlap.
C9_ReadFailureLeavesOverlap ==
    \A w \in Workers :
        Returned(w) /\ rdp[w].loaded = "ioerror" =>
            IOErrorOutcome(w) /\ NewOverlapsOld(rdp[w])

\* C9: when the read of the attached key fails, load() drops the key and
\* raises nothing; process() returns having written only the incoming RDRs
\* and this RDP never deletes the unreadable object, which is still live;
\* the old and the new partitions overlap exactly when an incoming
\* decision_id is no older than the old key's min_ts.
C9_ReadFailureKeepsOldKey ==
    \A w \in Workers :
        /\ rdp[w].loaded = "ioerror" => ~rdp[w].deleted /\ IsNull(rdp[w].s3_key)
        /\ Returned(w) /\ rdp[w].loaded = "ioerror" =>
              /\ IOErrorOutcome(w)
              /\ NewOverlapsOld(rdp[w]) <=>
                    \E d \in Ids(rdp[w].incoming) :
                        Timestamp(d) >= rdp[w].attached[1].mints

C9_Witness ==
    \E w \in Workers :
        /\ Returned(w) /\ rdp[w].loaded = "ioerror"
        /\ NewOverlapsOld(rdp[w])


\* C3 as stated: with no concurrent writer, when repair_overlapping_keys
\* completes (every key it asked to delete deleted), no two live keys of
\* the model have overlapping [min_ts, max_ts] intervals.
C3_RepairLeavesNoOverlap ==
    [][\A w \in Workers :
          pc[w] # "done" /\ pc'[w] = "done" /\ ~pass'[w].partial
              => NoOverlap(store')]_vars

\* C4 as stated: from a store whose keys' intervals are pairwise disjoint,
\* one ingest pass of one worker with no failure and no concurrent writer
\* leaves the keys' intervals pairwise disjoint.
C4_IngestKeepsPartitionsDisjoint ==
    \A w \in Workers :
        pc[w] = "repair_list" /\ pass[w].cleanStart /\ ~pass[w].readFailed
            => NoOverlap(store)

\* the same with overlap read as two partitions' decision_id ranges meeting
C4_IngestKeepsIdRangesDisjoint ==
    \A w \in Workers :
        pc[w] = "repair_list" /\ pass[w].cleanIds /\ ~pass[w].readFailed
            => NoIdOverlap(store)

\* C11: when one RDP of a batch raises a hard error (its attached file has
\* an invalid decision_id), every other RDP of the batch is still
\* processed: worker() does not end on the exception while an RDP of the
\* batch is still queued.
C11_FailureSparesOtherRDPs ==
    [][\A w \in Workers :
          /\ pc[w] = "dispatch" /\ pc'[w] = "failed"
          /\ rdp[w].loaded = "invalid" /\ rdp[w].deleted
          => queue[w] = <<>>]_vars

\* the partition a decision_id is looked up in: the first key of the
\* listing that starts after the decision_id's prefix
FirstKeyAfterPrefix(st, decision_id) ==
    LET s3_keys == list_partitions_after(st, ModelName,
                                         parquet_s3_key_prefix(decision_id))
    IN  IF s3_keys = <<>> THEN Null ELSE Some(s3_keys[1])

\* every decision_id of a live partition is found by the lookup
FoundByLookup(st) ==
    \A o \in st : \A d \in Ids(o.rows) :
        IsValidMessageId(d) => FirstKeyAfterPrefix(st, d) = Some(o.key)

Planned(w) == pc[w] = "start" /\ pc'[w] = "dispatch"

\* how often a row stands in a table
Count(df, row) == Cardinality({i \in DOMAIN df : df[i] = row})

\* the keys the listing returns for a batch: the live keys after the
\* least prefix of the batch
ListedFor(st, records) ==
    {k \in LiveKeys(st) :
        \E r \in Range(records) :
            LexLess(parquet_s3_key_prefix(r.decision_id), KeyString(k))}

\* the key the claim gives RDR r: the least listed key after r's prefix
TargetKey(st, records, r) ==
    LET after == {k \in ListedFor(st, records) :
                     LexLess(parquet_s3_key_prefix(r.decision_id), KeyString(k))}
    IN  IF after = {} THEN Null
        ELSE Some(CHOOSE k \in after : \A k2 \in after \ {k} : KeyLess(k, k2))

\* C13: partitions_from_firehose_record_group puts each incoming RDR into
\* the RDP of the least listed key that its prefix is less than, and into
\* an RDP with no key when its prefix is greater than every listed key;
\* when no key is listed the result is one RDP with no key that holds all
\* the RDRs.
C13_AssignedToLeastKeyAfterPrefix ==
    [][\A w \in Workers :
          Planned(w) =>
              LET records == pass'[w].records
                  rdps == queue'[w]
              IN  /\ \A r \in Range(records) :
                        /\ \E i \in DOMAIN rdps : r \in Range(rdps[i].df)
                        /\ \A i \in DOMAIN rdps :
                              r \in Range(rdps[i].df) =>
                                  rdps[i].s3_key = TargetKey(store, records, r)
                  /\ ListedFor(store, records) = {} =>
                        /\ Len(rdps) = 1
                        /\ IsNull(rdps[1].s3_key)
                        /\ \A r \in Range(records) :
                              Count(rdps[1].df, r) = Count(records, r)]_vars

\* a batch was planned into an RDP with a listed key and a trailing RDP
\* with no key, and none of the RDPs has started
C13_Witness ==
    \E w \in Workers :
        /\ pc[w] = "dispatch" /\ rdp[w].origin = "none"
        /\ Len(queue[w]) = 2
        /\ ~IsNull(queue[w][1].s3_key) /\ queue[w][1].s3_key[1] \in LiveKeys(store)
        /\ IsNull(queue[w][2].s3_key)
        /\ \A r \in Range(queue[w][2].df) :
              IsNull(TargetKey(store, pass[w].records, r))

\* C14: the RDPs that partitions_from_firehose_record_group returns
\* partition the incoming RDRs: every RDR is in exactly one RDP, no RDP is
\* empty, at most one RDP has no key, and no two RDPs are attached to the
\* same key (so that no two process() calls of one worker read or delete
\* the same object).
C14_RDPsPartitionTheBatch ==
    [][\A w \in Workers :
          Planned(w) =>
              LET records == pass'[w].records
                  rdps == queue'[w]
              IN  /\ \A r \in Range(records) :
                        Count(Flatten([i \in DOMAIN rdps |-> rdps[i].df]), r)
                            = Count(records, r)
                  /\ \A i \in DOMAIN rdps :
                        /\ rdps[i].df # <<>>
                        /\ Range(rdps[i].df) \subseteq Range(records)
                  /\ \A i, j \in DOMAIN rdps :
                        i # j => rdps[i].s3_key # rdps[j].s3_key]_vars

\* a batch of three RDRs was planned into two RDPs, and none has started
C14_Witness ==
    \E w \in Workers :
        /\ pc[w] = "dispatch" /\ rdp[w].origin = "none"
        /\ Len(pass[w].records) = 3
        /\ Len(queue[w]) = 2
        /\ Len(queue[w][1].df) + Len(queue[w][2].df) = 3

\* the partitions that save() wrote (the files the bucket held before the
\* workers started have uuid 0)
Saved(st) == {o \in st : o.key.uuid # 0}

\* C15: every partition written by save() has its rows in strictly
\* ascending decision_id order, the key's max_ts and min_ts are the
\* timestamps of the last and the first row, the key's count is the
\* number of rows, and the timestamp of every row lies in the key's
\* [min_ts, max_ts].
C15_SavedKeyDescribesItsRows ==
    \A o \in Saved(store) :
        LET n == Len(o.rows) IN
        /\ n > 0
        /\ \A i \in 1 .. n - 1 : o.rows[i].decision_id < o.rows[i + 1].decision_id
        /\ o.key.maxts = Timestamp(o.rows[n].decision_id)
        /\ o.key.mints = Timestamp(o.rows[1].decision_id)
        /\ o.key.count = n
        /\ \A i \in 1 .. n :
              /\ o.key.mints <= Timestamp(o.rows[i].decision_id)
              /\ Timestamp(o.rows[i].decision_id) <= o.key.maxts

\* save() wrote a partition of two rows that reaches over two seconds
C15_Witness ==
    \E o \in Saved(store) :
        /\ Len(o.rows) = 2
        /\ o.key.mints < o.key.maxts
        /\ IsValidMessageId(o.rows[1].decision_id)

\* the keys of K that a chain of pairwise overlapping intervals links to a
\* key of S
RECURSIVE Linked(_, _)
Linked(S, K) ==
    LET more == {k \in K : \E k2 \in S : KeysOverlap(k2, k)}
    IN  IF more \subseteq S THEN S ELSE Linked(S \cup more, K)

\* C16: get_all_overlaps groups the keys into the connected components of
\* the overlap relation on their closed [min_ts, max_ts] intervals: every
\* key is in exactly one group, and the group of a key holds exactly the
\* keys that a chain of pairwise overlapping intervals links to it, in
\* whatever order the keys are given.
C16_GroupsAreOverlapComponents ==
    oOverlaps # <<>> =>
        LET K == Range(oKeys) IN
        /\ \A k \in K :
              Cardinality({i \in DOMAIN oOverlaps :
                              k \in get_unique_overlapping_keys(oOverlaps[i])}) = 1
        /\ \A i \in DOMAIN oOverlaps :
              \A k \in get_unique_overlapping_keys(oOverlaps[i]) :
                  get_unique_overlapping_keys(oOverlaps[i]) = Linked({k}, K)

\* three keys given in an order that is not that of their lower ends, the
\* first and the last linked only through the one between them, came out
\* as one group
C16_Witness ==
    /\ Len(oKeys) = 3
    /\ Len(oOverlaps) = 1
    /\ ~KeysOverlap(oKeys[1], oKeys[2])
    /\ KeysOverlap(oKeys[1], oKeys[3]) /\ KeysOverlap(oKeys[3], oKeys[2])
    /\ oKeys[1].mints > oKeys[2].mints

\* the rows of the partitions under the keys, in key order
RowsUnder(st, s3_keys) ==
    Flatten([i \in DOMAIN s3_keys |-> RowsOf(st, s3_keys[i])])

\* worker w's repair is at its batch delete, and the request does not raise
BatchDelete(w) == pc[w] = "repair_delete" /\ pc'[w] # "failed"

\* some row of df carries both a decision and a reward
RewardAttached(df) ==
    \E i \in DOMAIN df :
        /\ ~IsNull(df[i].variant)
        /\ ~IsNull(df[i].rewards) /\ df[i].rewards[1] # <<>>

Listed(w) == pc[w] = "repair_list" /\ pc'[w] \in {"repair_get", "done"}

\* C18: one repair pass examines every live key of the model: whatever
\* the decision_ids of the batch, every two live partitions with
\* overlapping intervals are in a component that the pass repairs.
C18_RepairExaminesEveryLiveKey ==
    [][\A w \in Workers :
          Listed(w) =>
              \A k1, k2 \in LiveKeys(store) :
                  k1 # k2 /\ KeysOverlap(k1, k2) =>
                      \E i \in DOMAIN rep'[w].overlaps :
                          {k1, k2} \subseteq
                              get_unique_overlapping_keys(rep'[w].overlaps[i])]_vars

PartitionsOf(st, d) == {o \in st : d \in Ids(o.rows)}

\* the second attempt ends with none of its requests having failed:
\* repair returns, or repair raises on the partitions it was handed
SecondAttemptEnds ==
    /\ sched = "rerun"
    /\ pc[2] \in {"repair_list", "repair_delete"}
    /\ ~pass[2].readFailed
    /\ \/ pc'[2] = "done" /\ ~pass'[2].partial
       \/ pc'[2] = "failed" /\ pass'[2].raised = "TypeError"

\* C20: when the worker has been run again on its input file, after a run
\* that completed, was cancelled or failed part-way, the store is as after
\* one complete run: each decision_id of the file is in exactly one live
\* partition.
C20_RerunLeavesOnePartitionPerId ==
    [][SecondAttemptEnds =>
          \A d \in Ids(RerunFile) : Cardinality(PartitionsOf(store', d)) = 1]_vars

(***************************************************************************)
(* The life of a partition key.                                            *)
(***************************************************************************)
\* no key is written twice: what a step puts under rewarded_decisions/ goes
\* under a key that is not live and has never been removed, and what stands
\* under a key that stays live is what stood there
WrittenOnce ==
    /\ \A o \in store : o.key \in LiveKeys(store') => o \in store'
    /\ \A o, p \in store' : o.key = p.key => o = p
    /\ \A k \in LiveKeys(store') \ LiveKeys(store) : k \notin LiveKeys(removed)
    /\ removed' = removed \cup (store \ store')

\* the objects that were written under rewarded_decisions/ up to the end of
\* the step and are not the object o
WrittenBeside(o) == (store' \cup removed') \ {o}

\* C21 (as stated): a key is written once, its content never changes, it is
\* never live again once deleted, and it is deleted only after its rows
\* have been written under other keys of rewarded_decisions/.
C21_DeletedOnlyWhenReplaced ==
    [][/\ WrittenOnce
       /\ \A o \in store \ store' : Content({o}) \subseteq Content(WrittenBeside(o))]_vars

\* C21 (amended): as above, but a key whose file has an invalid decision_id
\* is deleted with no replacement, after its file has been copied under
\* unrecoverable/<key>.
C21_DeletedWhenReplacedOrQuarantined ==
    [][/\ WrittenOnce
       /\ \A o \in store \ store' :
             \/ Content({o}) \subseteq Content(WrittenBeside(o))
             \/ o \in unrecoverable']_vars

\* the old key has been replaced: it was deleted, nothing was quarantined,
\* and its rows are held by the keys written since
C21_Witness ==
    /\ OldObject \in removed
    /\ unrecoverable = {}
    /\ OldKey \notin LiveKeys(store)
    /\ store # {}
    /\ Content({OldObject}) \subseteq Content(store)

(***************************************************************************)
(* Firehose records.  A JSON value is its type, its number (the value of   *)
(* an int, a float or a bool, the length of a list) and its text; a JSON   *)
(* object is one value per field, Absent for a field it does not have.     *)
(***************************************************************************)
JInt(i) == [t |-> "int", n |-> i, s |-> ""]
JBool(b) == [t |-> "bool", n |-> IF b THEN 1 ELSE 0, s |-> ""]
JFloat(i) == [t |-> "float", n |-> i, s |-> ""]
JStr(text) == [t |-> "str", n |-> 0, s |-> text]
JList(len) == [t |-> "list", n |-> len, s |-> ""]
JDict == [t |-> "dict", n |-> 0, s |-> ""]
JNull == [t |-> "null", n |-> 0, s |-> ""]
Absent == [t |-> "absent", n |-> 0, s |-> ""]

\* a KSUID in its text form
JKsuid(d) == [t |-> "str", n |-> d, s |-> "ksuid"]

DECISION_TYPE == "decision"
REWARD_TYPE == "reward"
\* a type tag that is a string and names neither variant
OTHER_TYPE == "event"

\* json_record.get(key, None)
Get(json_record, key) ==
    IF json_record[key] = Absent THEN JNull ELSE json_record[key]

\* isinstance(x, int): bool is a subclass of int
IsInstanceInt(x) == x.t \in {"int", "bool"}

\* utils.is_valid_ksuid, utils.get_valid_timestamp, utils.is_valid_model_name
is_valid_ksuid(x) == x.t = "str" /\ x.s = "ksuid" /\ IsValidMessageId(x.n)
get_valid_timestamp(x) == x.t = "str" /\ x.s = "2021-10-07T00:00:00Z"
is_valid_model_name(x) == x.t = "str" /\ x.s \in {"a", "b"}

\* len(runners_up) if runners_up else 0
RunnersUpLen(runners_up) == IF runners_up.t = "list" THEN runners_up.n ELSE 0

\* _get_sample_pool_size, before its assert
_get_sample_pool_size(count, runners_up) ==
    count.n - 1 - RunnersUpLen(runners_up)

\* FirehoseRecord.__init__, the branch of a reward record: the exception
\* raised, "none" when the record is accepted
RewardChecks(j) ==
    CASE j.decision_id = Absent -> "KeyError"
      [] ~is_valid_ksuid(j.decision_id) -> "ValueError"
      [] j.reward = Absent -> "KeyError"
      [] j.reward.t \notin {"int", "bool", "float"} -> "ValueError"
      [] OTHER -> "none"

\* FirehoseRecord.__init__, the branch of a decision record
DecisionChecks(j) ==
    LET givens == Get(j, "givens")
        count == j.count
        runners_up == Get(j, "runners_up")
        has_sample == j.sample # Absent
        sample_pool_size == _get_sample_pool_size(count, runners_up)
    IN  CASE givens # JNull /\ givens.t # "dict" -> "ValueError"
          [] count = Absent -> "KeyError"
          [] ~IsInstanceInt(count) \/ count.n < 1 -> "ValueError"
          [] runners_up # JNull /\ (runners_up.t # "list" \/ runners_up.n = 0) ->
                "ValueError"
          [] sample_pool_size < 0 -> "AssertionError"
          [] has_sample /\ sample_pool_size = 0 -> "ValueError"
          [] ~has_sample /\ sample_pool_size > 0 -> "ValueError"
          [] OTHER -> "none"

\* FirehoseRecord(json_record): what the constructor raises, "none" when it
\* returns the record
FirehoseRecord(line) ==
    LET j == line.f
    IN  CASE line.json # "dict" -> "AssertionError"
          [] j.message_id = Absent -> "KeyError"
          [] ~is_valid_ksuid(j.message_id) -> "ValueError"
          [] j.timestamp = Absent -> "KeyError"
          [] ~get_valid_timestamp(j.timestamp) -> "ValueError"
          [] j.type = Absent -> "KeyError"
          [] j.type.t # "str" -> "ValueError"
          [] j.model = Absent -> "KeyError"
          [] ~is_valid_model_name(j.model) -> "ValueError"
          [] j.type.s = REWARD_TYPE -> RewardChecks(j)
          [] j.type.s = DECISION_TYPE -> DecisionChecks(j)
          [] OTHER -> "none"

\* the records the constructor is given: a decision record of a model, with
\* every shape of its optional fields
MaxCount == 3
MaxRunnersUp == 2

NoFields ==
    [message_id |-> Absent, timestamp |-> Absent, type |-> Absent, model |-> Absent,
     decision_id |-> Absent, reward |-> Absent, variant |-> Absent, givens |-> Absent,
     count |-> Absent, runners_up |-> Absent, sample |-> Absent]

Envelope(message_id, type, model) ==
    [NoFields EXCEPT !.message_id = JKsuid(message_id),
                     !.timestamp = JStr("2021-10-07T00:00:00Z"),
                     !.type = JStr(type),
                     !.model = JStr(model)]

JsonLine(fields) == [json |-> "dict", f |-> fields]

CountValues ==
    {Absent, JBool(TRUE), JBool(FALSE), JStr("1"), JFloat(1)} \cup
    {JInt(i) : i \in 0 .. MaxCount}

RunnersUpValues ==
    {Absent, JNull, JStr("x")} \cup {JList(len) : len \in 0 .. MaxRunnersUp}

SampleValues == {Absent, JNull, JStr("x")}

GivensValues == {Absent, JDict, JStr("x")}

DecisionLines ==
    {JsonLine([Envelope(Id(1, 0), DECISION_TYPE, "a") EXCEPT
                    !.variant = JStr("x"), !.givens = g, !.count = c,
                    !.runners_up = r, !.sample = s]) :
        <<g, c, r, s>> \in GivensValues \X CountValues \X RunnersUpValues \X SampleValues}

\* record = FirehoseRecord(json_record)
Construct ==
    /\ args # <<>>
    /\ result = <<>>
    /\ result' = <<FirehoseRecord(args[1])>>
    /\ UNCHANGED <<args, storeVars, mergeVars, overlapVars>>

\* the constructor alone
InitRecord ==
    /\ args \in {<<line>> : line \in DecisionLines}
    /\ result = <<>>
    /\ StoreIdle /\ MergeIdle /\ OverlapIdle

NextRecord == Construct

SpecRecord == InitRecord /\ [][NextRecord]_vars

\* what the record model asks of a decision record
WellFormedDecision(j) ==
    LET runners_up_len == IF j.runners_up.t = "list" THEN j.runners_up.n ELSE 0
        sample_pool_size == j.count.n - 1 - runners_up_len
    IN  /\ j.count.t = "int" /\ j.count.n >= 1
        /\ j.runners_up \in {Absent, JNull} \/ (j.runners_up.t = "list" /\ j.runners_up.n >= 1)
        /\ sample_pool_size >= 0
        /\ j.sample # Absent <=> sample_pool_size >= 1

\* C23: the constructor accepts a decision record only if its count is an
\* integer >= 1, its runners_up is absent or a non-empty list, its sample
\* pool size is >= 0 and it has a sample exactly when that size is >= 1;
\* every other record is rejected with an error.
C23_AcceptedOnlyIfWellFormed ==
    result # <<>> => (result[1] = "none" => WellFormedDecision(args[1].f))

\* the same, a count of JSON true taken for the integer 1
C23_AcceptedOnlyIfWellFormedOrTrue ==
    result # <<>> =>
        (result[1] = "none" =>
            \/ WellFormedDecision(args[1].f)
            \/ /\ args[1].f.count = JBool(TRUE)
               /\ WellFormedDecision([args[1].f EXCEPT !.count = JInt(1)]))

\* a well-formed decision record with runners up and a sample was accepted
C23_Witness ==
    /\ result = <<"none">>
    /\ args[1].f.count = JInt(MaxCount)
    /\ args[1].f.runners_up = JList(1)
    /\ args[1].f.sample # Absent

(***************************************************************************)
(* FirehoseRecordGroup.load_groups: the lines of the file, one by one.     *)
(***************************************************************************)
\* json.loads(line) raises JSONDecodeError on a line that is not JSON
ParseLine(line) ==
    IF line.json = "invalid" THEN "JSONDecodeError" ELSE FirehoseRecord(line)

\* (a handler for the errors of validation only)
ExceptValueErrorOnly(exception) == exception \in {"ValueError", "JSONDecodeError"}

\* except Exception: every error of parsing and of the constructor is one
Except(exception) ==
    exception \in {"JSONDecodeError", "AssertionError", "KeyError", "ValueError",
                   "TypeError"}

\* records_by_model[model].append(record), the model's list made first when
\* the model is new; a dict keeps its keys in the order they were added
AppendRecord(records_by_model, model, record) ==
    IF \E g \in DOMAIN records_by_model : records_by_model[g].model_name = model
    THEN [g \in DOMAIN records_by_model |->
            IF records_by_model[g].model_name = model
            THEN [records_by_model[g] EXCEPT !.records = Append(@, record)]
            ELSE records_by_model[g]]
    ELSE Append(records_by_model, [model_name |-> model, records |-> <<record>>])

\* the loop over gzf.readlines(), from line i on; a record is the number of
\* its line and its fields
RECURSIVE ReadLines(_, _, _)
ReadLines(lines, i, acc) ==
    IF i > Len(lines) \/ acc.raised # "none" THEN acc
    ELSE LET outcome == ParseLine(lines[i])
         IN  ReadLines(lines, i + 1,
                CASE outcome = "none" ->
                        [acc EXCEPT !.results =
                            AppendRecord(@, lines[i].f.model.s,
                                         [line |-> i, json |-> lines[i].f])]
                  [] outcome # "none" /\ Except(outcome) ->
                        [acc EXCEPT !.invalid_records = Append(@, i)]
                  [] OTHER -> [acc EXCEPT !.raised = outcome])

\* load_groups(s3_key) on a file of these lines: the groups returned, the
\* lines skipped, the exception that ended it
load_groups(lines) ==
    ReadLines(lines, 1, [results |-> <<>>, invalid_records |-> <<>>, raised |-> "none"])

\* the files: up to MaxLines lines, each a record of one of these kinds or
\* a line that is not JSON
MaxLines == 3

DecisionOf(message_id, model, count, runners_up, sample) ==
    JsonLine([Envelope(message_id, DECISION_TYPE, model) EXCEPT
                 !.variant = JStr("x"), !.count = count,
                 !.runners_up = runners_up, !.sample = sample])

RewardOf(message_id, model, decision_id) ==
    JsonLine([Envelope(message_id, REWARD_TYPE, model) EXCEPT
                 !.decision_id = JKsuid(decision_id), !.reward = JInt(1)])

FileLines ==
    {DecisionOf(Id(1, 0), "a", JInt(1), Absent, Absent),
     DecisionOf(Id(1, 1), "b", JInt(2), Absent, JNull),
     RewardOf(Id(2, 0), "a", Id(1, 0)),
     RewardOf(Id(2, 1), "b", BadId),
     DecisionOf(Id(1, 0), "a", Absent, Absent, Absent),
     DecisionOf(Id(1, 0), "a", JInt(0), Absent, Absent),
     DecisionOf(Id(1, 0), "b", JInt(1), JList(1), Absent),
     DecisionOf(Id(1, 0), "", JInt(1), Absent, Absent),
     JsonLine(Envelope(Id(2, 0), OTHER_TYPE, "a")),
     [json |-> "other", f |-> NoFields],
     [json |-> "invalid", f |-> NoFields]}

Files == UNION {[1 .. n -> FileLines] : n \in 0 .. MaxLines}

\* results = FirehoseRecordGroup.load_groups(s3_key)
LoadGroups ==
    /\ args # <<>>
    /\ result = <<>>
    /\ result' = <<load_groups(args[1])>>
    /\ UNCHANGED <<args, storeVars, mergeVars, overlapVars>>

\* load_groups alone
InitLoad ==
    /\ args \in {<<lines>> : lines \in Files}
    /\ result = <<>>
    /\ StoreIdle /\ MergeIdle /\ OverlapIdle

NextLoad == LoadGroups

SpecLoad == InitLoad /\ [][NextLoad]_vars

\* the line validates: it is JSON and the constructor accepts it
Validates(line) == ParseLine(line) = "none"

\* where the record of line i stands in the groups
PlacesOf(results, i) ==
    {<<g, p>> \in (DOMAIN results) \X (1 .. MaxLines) :
        p \in DOMAIN results[g].records /\ results[g].records[p].line = i}

\* C22: load_groups does not fail on an invalid line: a line that is not
\* JSON or that the constructor rejects is counted and skipped; a line that
\* validates is in exactly one group, that of its model, the records of a
\* group in file order; the groups have distinct model names, none is empty.
C22_LoadGroupsSkipsInvalidLines ==
    result # <<>> =>
        LET lines == args[1]
            out == result[1]
        IN  /\ out.raised = "none"
            /\ Len(out.invalid_records) =
                  Cardinality({i \in DOMAIN lines : ~Validates(lines[i])})
            /\ \A i \in DOMAIN lines :
                  IF Validates(lines[i])
                  THEN /\ Cardinality(PlacesOf(out.results, i)) = 1
                       /\ \A pl \in PlacesOf(out.results, i) :
                             /\ out.results[pl[1]].model_name = lines[i].f.model.s
                             /\ out.results[pl[1]].records[pl[2]].json = lines[i].f
                  ELSE PlacesOf(out.results, i) = {}
            /\ \A g \in DOMAIN out.results :
                  /\ out.results[g].records # <<>>
                  /\ \A p, q \in DOMAIN out.results[g].records :
                        p < q => out.results[g].records[p].line <
                                    out.results[g].records[q].line
                  /\ \A h \in DOMAIN out.results :
                        out.results[g].model_name = out.results[h].model_name => g = h

\* a file of a line that is not JSON between two records of two models,
\* the first of them rejected without a ValueError: one group came back
C22_Witness ==
    /\ result # <<>>
    /\ Len(args[1]) = MaxLines
    /\ ParseLine(args[1][1]) \in {"KeyError", "AssertionError"}
    /\ args[1][2].json = "invalid"
    /\ Validates(args[1][3])
    /\ Len(result[1].results) = 1
    /\ Len(result[1].invalid_records) = 2

(***************************************************************************)
(* identify_incoming_files_to_process: the files of a worker.  A file name *)
(* is the sequence of its leading hex digits, each a number in 0 .. 15.    *)
(***************************************************************************)
HexChars == 16
HexBase == 16

\* int(f.name[:16], 16) % node_count, computed digit by digit: Python
\* integers do not overflow, so the remainder of the whole number is the
\* remainder carried through the digits
RECURSIVE IntMod(_, _, _)
IntMod(digits, node_count, carried) ==
    IF digits = <<>> THEN carried
    ELSE IntMod(Tail(digits), node_count,
                (carried * HexBase + Head(digits)) % node_count)

\* (node ids taken as one-based)
SelectsOneBased(name, node_id, node_count) ==
    IntMod(SubSeq(name, 1, HexChars), node_count, 0) + 1 = node_id

\* (int(f.name[:16], 16) % node_count) == node_id
Selects(name, node_id, node_count) ==
    IntMod(SubSeq(name, 1, HexChars), node_count, 0) = node_id

\* identify_incoming_files_to_process(input_dir, node_id, node_count)
identify_incoming_files_to_process(input_dir, node_id, node_count) ==
    SelectSeq(input_dir, LAMBDA f : Selects(f, node_id, node_count))

\* the input folders: up to MaxFiles files, the names differing in their
\* first and in their last hex digits
MaxFiles == 2
MaxNodes == 3

HexName(first, last2, last) ==
    <<first>> \o [i \in 1 .. HexChars - 3 |-> 0] \o <<last2, last>>

FileNames ==
    {HexName(0, 0, d) : d \in 0 .. 5} \cup
    {HexName(15, 15, 15), HexName(1, 0, 0), HexName(10, 1, 7)}

InputDirs == UNION {[1 .. n -> FileNames] : n \in 1 .. MaxFiles}

\* each node of the job array identifies its files
IdentifyFiles ==
    /\ args # <<>>
    /\ result = <<>>
    /\ result' = <<[node_id \in 0 .. args[2] - 1 |->
                      identify_incoming_files_to_process(args[1], node_id, args[2])]>>
    /\ UNCHANGED <<args, storeVars, mergeVars, overlapVars>>

\* the file selection alone
InitFiles ==
    /\ args \in InputDirs \X (1 .. MaxNodes)
    /\ result = <<>>
    /\ StoreIdle /\ MergeIdle /\ OverlapIdle

NextFiles == IdentifyFiles

SpecFiles == InitFiles /\ [][NextFiles]_vars

\* how often the file at place i of the folder stands in a list of files
TimesIn(files, name) == Cardinality({p \in DOMAIN files : files[p] = name})

\* C24: for every worker count N >= 1 and every file whose name starts with
\* 16 hex digits, exactly one worker index in 0 .. N - 1 selects the file:
\* the lists of the N workers together hold every input file exactly once.
C24_OneWorkerPerFile ==
    result # <<>> =>
        LET input_dir == args[1]
            node_count == args[2]
            selected == result[1]
        IN  \A name \in Range(input_dir) :
               /\ Cardinality({node_id \in 0 .. node_count - 1 :
                                  Selects(name, node_id, node_count)}) = 1
               /\ \E node_id \in DOMAIN selected :
                     /\ TimesIn(selected[node_id], name) = TimesIn(input_dir, name)
                     /\ \A other \in DOMAIN selected \ {node_id} :
                           TimesIn(selected[other], name) = 0

\* three workers, two files, and the files went to two workers that are
\* not the first
C24_Witness ==
    /\ result # <<>>
    /\ args[2] = MaxNodes
    /\ Len(args[1]) = MaxFiles
    /\ result[1][0] = <<>>
    /\ result[1][1] # <<>>
    /\ result[1][2] # <<>>

(***************************************************************************)
(* Claims about merge(), split() and the key scheme.                       *)
(***************************************************************************)
\* the first non-null cell of a column, null when it has none
FirstNonNull(cells) ==
    IF \A i \in DOMAIN cells : IsNull(cells[i]) THEN Null
    ELSE cells[Min({i \in DOMAIN cells : ~IsNull(cells[i])})]

\* table out has one row per decision_id of table in, by ascending
\* decision_id, its variant and givens the first non-null ones of the rows
\* of in with that decision_id
FirstCellsOf(in, out) ==
    /\ Len(out) = Cardinality(Ids(in))
    /\ \A i, j \in DOMAIN out : i < j => out[i].decision_id < out[j].decision_id
    /\ \A i \in DOMAIN out :
          LET g == SelectSeq(in, LAMBDA r : r.decision_id = out[i].decision_id)
          IN  /\ g # <<>>
              /\ out[i].variant = FirstNonNull([k \in DOMAIN g |-> g[k].variant])
              /\ out[i].givens = FirstNonNull([k \in DOMAIN g |-> g[k].givens])

\* C25: merge() gives one row per distinct decision_id of the table it is
\* called on (the table as sort() left it), by ascending decision_id; each
\* non-reward column holds the first non-null value among the rows of that
\* decision_id, null when all are null; so a reward-only row merged with a
\* decision row of the same decision_id carries the decision's fields.
C25_MergeTakesFirstNonNullCells ==
    EndsWith(<<"merge">>) =>
        /\ \E sorted \in SortOutcomes(Back(1)) : FirstCellsOf(sorted, Back(0))
        /\ \A i \in DOMAIN Back(0) :
              (\E k \in DOMAIN Back(1) :
                   /\ Back(1)[k].decision_id = Back(0)[i].decision_id
                   /\ ~IsNull(Back(1)[k].variant))
                 => ~IsNull(Back(0)[i].variant)

\* a reward came before its decision, a decision of another decision_id
\* had no givens: two rows, the first with the decision's variant and the
\* reward
C25_Witness ==
    /\ mOps = <<"merge">>
    /\ Len(Back(1)) = 3
    /\ Back(1)[1] = RewardRDR(Id(1, 0), 11, 1)
    /\ Back(1)[2] = DecisionRDR(Id(1, 0), "b", Some("g"))
    /\ Back(1)[3] = DecisionRDR(Id(1, 1), "a", Null)
    /\ Len(Back(0)) = 2
    /\ Back(0)[1].variant = Some("b") /\ Back(0)[1].givens = Some("g")
    /\ Back(0)[1].reward = Some(1)
    /\ Back(0)[2].givens = Null

(***************************************************************************)
(* merge_rewards alone: the rewards cells of the rows of one decision_id,  *)
(* in the order merge() meets them.                                        *)
(***************************************************************************)
RewardsCells ==
    {Null, Some(<< <<11, 1>> >>), Some(<< <<11, 2>> >>), Some(<< <<12, 2>> >>),
     Some(<< <<11, 3>>, <<12, 1>> >>)}

RewardsSeries == UNION {[1 .. n -> RewardsCells] : n \in 1 .. MaxTable}

\* aggregations[REWARDS_KEY]: merge_rewards on the column of a group
MergeRewards ==
    /\ args # <<>>
    /\ result = <<>>
    /\ result' = <<merge_rewards(args[1])>>
    /\ UNCHANGED <<args, storeVars, mergeVars, overlapVars>>

InitRewards ==
    /\ args \in {<<rewards_series>> : rewards_series \in RewardsSeries}
    /\ result = <<>>
    /\ StoreIdle /\ MergeIdle /\ OverlapIdle

NextRewards == MergeRewards

SpecRewards == InitRewards /\ [][NextRewards]_vars

\* the places of the series whose map has the message_id
MapsWith(rewards_series, k) ==
    {i \in DOMAIN rewards_series :
        ~IsNull(rewards_series[i]) /\ k \in MapKeys(rewards_series[i][1])}

\* the merged map has the message_ids of all maps of the series, each once
IsUnionOfKeys(rewards_series, merged) ==
    /\ MapKeys(merged) =
          UNION {MapKeys(rewards_series[i][1]) :
                    i \in {j \in DOMAIN rewards_series : ~IsNull(rewards_series[j])}}
    /\ Len(merged) = Cardinality(MapKeys(merged))

\* C26 (as stated): the merged rewards map has the union of the key sets of
\* the maps of the decision_id's rows, and a reward message_id that occurs
\* in several maps keeps the value of the last of them in input order.
C26_LastMapWins ==
    result # <<>> =>
        /\ IsUnionOfKeys(args[1], result[1])
        /\ \A k \in MapKeys(result[1]) :
              MapGet(result[1], k) =
                 MapGet(args[1][Max(MapsWith(args[1], k))][1], k)

\* C26 (amended): the merged rewards map has the union of the key sets, and
\* a reward message_id that occurs in several maps keeps the value of the
\* first of them in the order of the rows.
C26_FirstMapWins ==
    result # <<>> =>
        /\ IsUnionOfKeys(args[1], result[1])
        /\ \A k \in MapKeys(result[1]) :
              MapGet(result[1], k) =
                 MapGet(args[1][Min(MapsWith(args[1], k))][1], k)

\* a row without rewards, then two maps that give message_id 11 two values
C26_Witness ==
    /\ result # <<>>
    /\ args[1] = <<Null, Some(<< <<11, 2>> >>), Some(<< <<11, 3>>, <<12, 1>> >>)>>
    /\ result[1] = << <<11, 2>>, <<12, 1>> >>

(***************************************************************************)
(* split alone: a table of n rows, numbered, and a chunk size.             *)
(***************************************************************************)
MaxRows == 12
MaxChunkRows == 5

\* chunks = split(df, max_row_count)
Split ==
    /\ args # <<>>
    /\ result = <<>>
    /\ result' = <<split(args[1], args[2])>>
    /\ UNCHANGED <<args, storeVars, mergeVars, overlapVars>>

InitSplit ==
    /\ args \in {<<[i \in 1 .. n |-> i], max_row_count>> :
                    <<n, max_row_count>> \in (1 .. MaxRows) \X (1 .. MaxChunkRows)}
    /\ result = <<>>
    /\ StoreIdle /\ MergeIdle /\ OverlapIdle

NextSplit == Split

SpecSplit == InitSplit /\ [][NextSplit]_vars

\* C27: split(df, max_row_count) on a table of n >= 1 rows returns
\* ceil(n / max_row_count) chunks, consecutive row ranges that concatenated
\* in order give the table; every chunk has at least 1 and at most
\* max_row_count rows and the sizes of two chunks differ by at most 1.
C27_SplitIntoEqualConsecutiveChunks ==
    result # <<>> =>
        LET df == args[1]
            max_row_count == args[2]
            chunks == result[1]
        IN  /\ Len(chunks) * max_row_count >= Len(df)
            /\ (Len(chunks) - 1) * max_row_count < Len(df)
            /\ Flatten(chunks) = df
            /\ \A c \in DOMAIN chunks :
                  Len(chunks[c]) >= 1 /\ Len(chunks[c]) <= max_row_count
            /\ \A c, d \in DOMAIN chunks : Len(chunks[c]) - Len(chunks[d]) <= 1

\* a table that does not divide evenly: three chunks of two sizes
C27_Witness ==
    /\ result # <<>>
    /\ Len(args[1]) = 11 /\ args[2] = 4
    /\ Len(result[1]) = 3
    /\ Len(result[1][1]) = 4 /\ Len(result[1][3]) = 3

(***************************************************************************)
(* The text of keys and prefixes, character by character (ASCII codes).    *)
(* The calendar is a small one: a timestamp is a day and a second of that  *)
(* day, each written with two digits as strftime writes its fields; the    *)
(* year and the month are the same for all and left out.                   *)
(***************************************************************************)
SecondsPerDay == 11
MaxDay == 1

AsciiDash == 45
AsciiSlash == 47
AsciiZero == 48
AsciiT == 84
AsciiZ == 90

\* (a field written without its leading zero)
Unpadded(n) ==
    IF n < 10 THEN <<AsciiZero + n>> ELSE <<AsciiZero + (n \div 10), AsciiZero + (n % 10)>>

\* a field of strftime: two digits
Pad2(n) == <<AsciiZero + (n \div 10), AsciiZero + (n % 10)>>

\* datetime.strftime(ISO_8601_BASIC_FORMAT): <dd>T<ss>Z
strftime(timestamp) ==
    Pad2(timestamp \div SecondsPerDay) \o <<AsciiT>> \o
    Pad2(timestamp % SecondsPerDay) \o <<AsciiZ>>

\* the text of parquet_s3_key_prefix after rewarded_decisions/<model>/
\* parquet/yyyy/mm/: <dd>/<max_timestamp>
PrefixText(max_timestamp) ==
    SubSeq(strftime(max_timestamp), 1, 2) \o <<AsciiSlash>> \o strftime(max_timestamp)

\* str(count), str(uuid)
RECURSIVE Decimal(_)
Decimal(n) ==
    IF n < 10 THEN <<AsciiZero + n>> ELSE Decimal(n \div 10) \o <<AsciiZero + (n % 10)>>

\* the text of a key: <prefix>-<min_timestamp>-<count>-<uuid>
KeyText(k) ==
    PrefixText(k.maxts) \o <<AsciiDash>> \o strftime(k.mints) \o <<AsciiDash>> \o
    Decimal(k.count) \o <<AsciiDash>> \o Decimal(k.uuid)

Stamps == 0 .. (MaxDay + 1) * SecondsPerDay - 1

\* the keys whose texts are compared: every max timestamp, the min
\* timestamp the same or the first, one-digit and two-digit counts
TextKeys ==
    {parquet_s3_key(ModelName, Id(mn, 0), Id(mx, 1), c, 0) :
        <<mn, mx, c>> \in {q \in Stamps \X Stamps \X {1, 10} : q[1] \in {0, q[2]}}}

\* the texts of two keys as parquet_s3_key writes them
WriteKeys ==
    /\ args # <<>>
    /\ result = <<>>
    /\ result' = <<KeyText(args[1]), KeyText(args[2])>>
    /\ UNCHANGED <<args, storeVars, mergeVars, overlapVars>>

InitKeys ==
    /\ args \in TextKeys \X TextKeys
    /\ result = <<>>
    /\ StoreIdle /\ MergeIdle /\ OverlapIdle

NextKeys == WriteKeys

SpecKeys == InitKeys /\ [][NextKeys]_vars

\* C28: a key whose max timestamp is earlier than the timestamp of
\* decision_id D sorts strictly before the prefix of D, a key whose max
\* timestamp is equal or later sorts strictly after it; and of two keys,
\* the one with the earlier max timestamp is the smaller.
C28_KeyOrderIsTimeOrder ==
    result # <<>> =>
        /\ \A t \in Stamps, r \in 0 .. IdsPerSec - 1 :
              LET prefix == PrefixText(Timestamp(Id(t, r)))
              IN  /\ args[1].maxts < t => LexLess(result[1], prefix)
                  /\ args[1].maxts >= t => LexLess(prefix, result[1])
        /\ args[1].maxts < args[2].maxts => LexLess(result[1], result[2])

\* second 9 of day 0 and second 10 of day 0; second 10 of day 0 and
\* second 0 of day 1
C28_Witness ==
    /\ result # <<>>
    /\ \/ args[1].maxts = 9 /\ args[2].maxts = 10
       \/ args[1].maxts = 10 /\ args[2].maxts = SecondsPerDay
    /\ args[1].count = 10 /\ args[2].count = 1
    /\ LexLess(result[1], result[2])

(***************************************************************************)
(* Claims about worker() and the planning of the RDPs.                     *)
(***************************************************************************)
\* C29: in worker() the repair pass starts only after every RDP of the
\* ingest pass has finished process(); the repair call of the model then
\* lists the model's keys from the prefix of the smallest min_decision_id
\* of the processed RDPs and runs on: nothing but a failed request ends it.
C29_RepairListsFromSmallestMin ==
    [][\A w \in Workers :
          /\ pc'[w] = "repair_list" => queue'[w] = <<>> /\ mins'[w] # {}
          /\ pc[w] = "repair_list" /\ pc'[w] # "repair_list" =>
                \/ pass'[w].raised = "Exception"
                \/ /\ pass'[w].listed
                   /\ pc'[w] \in {"repair_get", "done"}
                   /\ pc'[w] = "done" =>
                         ComponentsToRepair(
                            list_partitions_after(store, ModelName,
                               parquet_s3_key_prefix(Min(mins[w])))) = <<>>]_vars

\* the rewards cells of the rows of decision_id d in a batch
IncomingRewards(records, d) ==
    UNION {{kv : kv \in Range(records[i].rewards[1])} :
              i \in {j \in DOMAIN records :
                        records[j].decision_id = d /\ ~IsNull(records[j].rewards)}}

\* C30: partitions_from_firehose_record_group puts all incoming RDRs of one
\* decision_id (a decision and the rewards that target it) into the same
\* RDP; and when that RDP has no existing partition and its process()
\* returns, the decision_id has one row in what was written: the decision's
\* fields, the rewards map of the batch's rewards and their sum as reward.
C30_SameDecisionIdSameRDP ==
    [][\A w \in Workers :
          /\ Planned(w) =>
                \A i, j \in DOMAIN queue'[w] :
                    Ids(queue'[w][i].df) \cap Ids(queue'[w][j].df) # {} => i = j
          /\ Returned(w)' /\ ~Returned(w) /\ rdp'[w].origin = "ingest"
                /\ IsNull(rdp'[w].attached) =>
                LET r == rdp'[w]
                    rows == WrittenRows(store', r.written)
                IN  \A d \in Ids(r.incoming) :
                       /\ Cardinality({i \in DOMAIN rows : rows[i].decision_id = d}) = 1
                       /\ \A i \in DOMAIN rows :
                             rows[i].decision_id = d =>
                                /\ Range(rows[i].rewards[1]) = IncomingRewards(r.incoming, d)
                                /\ rows[i].reward =
                                      Some(SumValues(rows[i].rewards[1]))
                                /\ (\E k \in DOMAIN r.incoming :
                                        /\ r.incoming[k].decision_id = d
                                        /\ ~IsNull(r.incoming[k].variant))
                                      => ~IsNull(rows[i].variant)]_vars

\* a decision and its reward came in one batch, nothing was listed, and
\* the one RDP wrote one row with rewards = {11: 1} and reward = 1
C30_Witness ==
    \E w \in Workers :
        /\ Returned(w) /\ rdp[w].origin = "ingest" /\ IsNull(rdp[w].attached)
        /\ pass[w].records = <<DecisionRDR(Id(2, 0), "a", Null), RewardRDR(Id(2, 0), 11, 1)>>
        /\ rdp[w].incoming = pass[w].records
        /\ \E o \in store :
              /\ o.key \in Range(rdp[w].written)
              /\ Len(o.rows) = 1
              /\ o.rows[1].variant = Some("a")
              /\ o.rows[1].rewards = Some(<< <<11, 1>> >>)
              /\ o.rows[1].reward = Some(1)

(***************************************************************************)
(* Claims about the keys of one save(), the reach of repair and the        *)
(* records that reach the partitions.                                      *)
(***************************************************************************)
\* C31: the keys written by one save() have pairwise non-overlapping
\* [min_ts, max_ts] intervals under repair's overlap test: get_all_overlaps
\* puts no two chunks of one save() in the same component.
C31_ChunksOfOneSaveDoNotOverlap ==
    \A w \in Workers :
        /\ Cardinality(Range(rdp[w].written)) > 1 =>
              ComponentsToRepair(SortKeys(Range(rdp[w].written))) = <<>>
        /\ \A k1, k2 \in Range(rdp[w].written) : k1 # k2 => ~KeysOverlap(k1, k2)

\* worker w is in its repair pass
InRepair(w) ==
    \/ pc[w] \in {"repair_list", "repair_get", "repair_delete"}
    \/ rdp[w].origin = "repair" /\ pc[w] \in {"load", "save", "cleanup"}

\* the keys a repair pass has still to read or to delete
RepairKeys(r) ==
    r.keys \cup r.toLoad \cup
    UNION {get_unique_overlapping_keys(r.overlaps[i]) : i \in DOMAIN r.overlaps}

\* the keys of a listing whose interval overlaps that of no other listed key
Isolated(train_s3_keys) ==
    {k \in Range(train_s3_keys) :
        \A k2 \in Range(train_s3_keys) \ {k} : ~KeysOverlap(k, k2)}

\* C32: repair leaves alone what is outside the components of two or more
\* keys: a listed key that overlaps no other listed key is not among the
\* keys it reads or deletes, it reads and deletes only keys of such
\* components and writes only new keys of its model, no object of another
\* model changes, and on a listing of 0 or 1 key it returns at once.
C32_RepairLeavesTheRestAlone ==
    [][\A w \in Workers :
          /\ pc[w] = "repair_list" /\ pass'[w].listed =>
                LET train_s3_keys ==
                        list_partitions_after(store, ModelName,
                                              parquet_s3_key_prefix(Min(mins[w])))
                IN  /\ store' = store
                    /\ RepairKeys(rep'[w]) \cap Isolated(train_s3_keys) = {}
                    /\ RepairKeys(rep'[w]) \subseteq Range(train_s3_keys)
                    /\ Len(train_s3_keys) <= 1 => pc'[w] = "done"
          /\ InRepair(w) /\ pc[w] # "repair_list" =>
                /\ RepairKeys(rep'[w]) \subseteq RepairKeys(rep[w])
                /\ LiveKeys(store) \ LiveKeys(store') \subseteq rep[w].keys
                /\ \A o \in store' \ store :
                      o.key.model = ModelName /\ o.key \notin LiveKeys(store)
          /\ \A o \in store : o.key.model # ModelName => o \in store'
          /\ \A o \in store' : o.key.model # ModelName => o \in store]_vars

\* a repair pass listed three keys, replaced the two that overlap and left
\* the third, which is still there, as is the other model's partition
C32_Witness ==
    \E w \in Workers :
        /\ pc[w] = "done" /\ pass[w].repairs > 0 /\ ~pass[w].partial
        /\ OtherObject \in store
        /\ unrecoverable = {}
        /\ Cardinality({o \in removed : o.key.mints = 2 /\ o.key.maxts = 2}) = 2
        /\ \E o, p \in store :
              /\ o.key.model = ModelName /\ p.key.model = ModelName
              /\ o.key.maxts = 1 /\ o.key.uuid = 10 * w
              /\ p.key.mints = 2 /\ p.key.uuid > o.key.uuid
              /\ store = {o, p, OtherObject}

(***************************************************************************)
(* FirehoseRecord.to_rewarded_decision_dict: the projection of an accepted *)
(* record.  The dict is a record of its keys, Absent where the key is not  *)
(* set.                                                                    *)
(***************************************************************************)
\* json.dumps(x, option=OPT_SORT_KEYS).decode("utf-8"): the text of a value
dumps(x) == [t |-> "str", n |-> x.n, s |-> "json " \o x.t \o " " \o x.s]

\* result = {}
EmptyDict ==
    [decision_id |-> Absent, timestamp |-> Absent, variant |-> Absent,
     givens |-> Absent, count |-> Absent, runners_up |-> Absent,
     sample |-> Absent, rewards |-> Absent]

\* the keys a dict holds
KeysOf(d) == {k \in DOMAIN d : d[k] # Absent}

\* the fields of the record as the constructor left them (self.x)
is_decision_record(j) == j.type.s = DECISION_TYPE
is_reward_record(j) == j.type.s = REWARD_TYPE

to_rewarded_decision_dict(j) ==
    LET givens == Get(j, "givens")
        runners_up == Get(j, "runners_up")
        sample == Get(j, "sample")
    IN  CASE is_decision_record(j) ->
                [EmptyDict EXCEPT
                    !.decision_id = j.message_id,
                    !.timestamp = j.timestamp,
                    !.variant = dumps(Get(j, "variant")),
                    !.givens = IF givens # JNull THEN dumps(givens) ELSE Absent,
                    !.count = j.count,
                    !.runners_up = IF runners_up # JNull
                                   THEN [runners_up EXCEPT !.s = "json"] ELSE Absent,
                    !.sample = IF sample # JNull THEN dumps(sample) ELSE Absent]
          [] is_reward_record(j) ->
                [EmptyDict EXCEPT
                    !.decision_id = j.decision_id,
                    !.rewards = [t |-> "dict", n |-> j.reward.n, s |-> "by message_id"]]
          [] OTHER -> EmptyDict

\* the type tag of a line that is a JSON object with a string for its type
TypeTag(line) ==
    IF line.json = "dict" /\ line.f.type.t = "str" THEN line.f.type.s ELSE ""

\* C33: every record that load_groups accepts is a decision or a reward and
\* its projection to_rewarded_decision_dict() has a decision_id, the
\* message_id of the decision or the decision_id the reward targets; a
\* record whose type tag is another string is skipped as invalid and is in
\* no group handed to the partitions.
C33_AcceptedIsDecisionOrReward ==
    result # <<>> =>
        LET lines == args[1]
            out == result[1]
        IN  /\ \A g \in DOMAIN out.results :
                  \A p \in DOMAIN out.results[g].records :
                      LET j == out.results[g].records[p].json
                          d == to_rewarded_decision_dict(j)
                      IN  /\ is_decision_record(j) \/ is_reward_record(j)
                          /\ "decision_id" \in KeysOf(d)
                          /\ is_decision_record(j) => d.decision_id = j.message_id
                          /\ is_reward_record(j) => d.decision_id = j.decision_id
            /\ \A i \in DOMAIN lines :
                  TypeTag(lines[i]) \notin {"", DECISION_TYPE, REWARD_TYPE} =>
                      /\ PlacesOf(out.results, i) = {}
                      /\ i \in Range(out.invalid_records)

\* the projections of the records of the two variants do have their
\* decision_id
C33_ProjectionOfTheTwoVariants ==
    result # <<>> =>
        \A g \in DOMAIN result[1].results :
            \A p \in DOMAIN result[1].results[g].records :
                LET j == result[1].results[g].records[p].json
                    d == to_rewarded_decision_dict(j)
                IN  /\ is_decision_record(j) => d.decision_id = j.message_id
                    /\ is_reward_record(j) => d.decision_id = j.decision_id
                    /\ ~is_decision_record(j) /\ ~is_reward_record(j) => KeysOf(d) = {}

====
